---- MODULE Spec2Model ----
(***************************************************************************)
(* Model of the QuObjectBucketClaim controller                             *)
(* (controllers package of pascal71/quobject-controller, the               *)
(* retention-aware Reconcile of api/v1alpha1/quobjectbucketclaim_types.go  *)
(* lines 96-515).                                                          *)
(*                                                                         *)
(* The claim store, the artifact store, the credential secret and the S3   *)
(* backend are state; every round trip a reconcile pass makes is one       *)
(* action, positioned by pc[c]; the user, other S3 tenants and S3 clients  *)
(* are environment actions.                                                *)
(***************************************************************************)
EXTENDS Naturals, Sequences, FiniteSets, TLC

VARIABLES
  store,        \* claim store: claim name -> stored QuObjectBucketClaim
  secrets,      \* artifact store: Secret name -> stored Secret
  configMaps,   \* artifact store: ConfigMap name -> stored ConfigMap
  credSecrets,  \* controller namespace: secret name -> Data
  buckets,      \* S3 backend: bucket name -> [owner, objects]
  pc,           \* per claim: position of its reconcile pass
  claim,        \* per claim: the pass's in-memory claim object
  s3Client,     \* per claim: the pass's S3 client
  bucketName,   \* per claim: the pass's bucketName local (kept until a pass next sets it)
  listResp,     \* per claim: keys of the pass's ListObjectsV2 response not yet deleted
  existing,     \* per claim: what the c.Get of the upsert in progress returned (<< >>: not found)
  outdated,     \* per claim: the object c.Get read was written by someone else since
  stale,        \* per claim: the stored claim was written by someone else since the pass read it
  path,         \* per claim: branch taken by the current / last pass
  result,       \* per claim: what the last completed pass returned
  attempted,    \* per claim: a bucket probe or create was issued for the stored claim
  delResult,    \* per claim: what deleteBucket returned in the current / last pass
  disturbed,    \* per claim: a backend fault or a client's write hit the pass's deleteBucket
  faults,       \* failures injected so far into steady-state round trips
  edits         \* spec edits the user has made so far

vars == <<store, secrets, configMaps, credSecrets, buckets, pc, claim,
          s3Client, bucketName, listResp, existing, outdated, stale, path, result, attempted,
          delResult, disturbed, faults, edits>>

artifactVars == <<secrets, configMaps>>
\* what a pass holds between two of its round trips
passVars     == <<pc, claim, s3Client, bucketName, listResp, existing, outdated, stale, path, result,
                 delResult, disturbed>>

-----------------------------------------------------------------------------
(* Bounds of the model *)

\* number of distinct outcomes of crypto/rand.Read the model draws from
NumRandomReads == 2
\* keys one ListObjectsV2 response carries (1000 in S3, scaled down)
ListMaxKeys == 2
\* object keys a client may write: one more than a list response holds
MaxObjects == ListMaxKeys + 1
\* failures injected into the round trips of steady-state passes
MaxFaults == 1
\* edits of a stored claim's spec
MaxEdits == 1

-----------------------------------------------------------------------------
(* Program constants *)

finalizerName          == "quobject.io/finalizer"
annotationBucketName   == "quobject.io/bucket-name"
annotationRetainPolicy == "quobject.io/retain-policy"
credSecretName         == "s3-credentials"

RetainPolicyRetain == "Retain"
RetainPolicyDelete == "Delete"

charset == << "a","b","c","d","e","f","g","h","i","j","k","l","m","n","o","p",
              "q","r","s","t","u","v","w","x","y","z","0","1","2","3","4","5",
              "6","7","8","9" >>

-----------------------------------------------------------------------------
(* Inputs the environment supplies *)

Claims     == {"a", "b"}
Namespace  == "ns"
ExplicitNames == {"", "fixed"}
Prefixes      == {"", "app"}
Policies      == {"", RetainPolicyRetain, RetainPolicyDelete}
ObjectKeys    == 1..MaxObjects

\* the k-th outcome of rand.Read on a buffer of the given length
RandomRead(k, length) == [i \in 1..length |-> (k * 51 + i) % 256]
RandomReads(length) == { RandomRead(k, length) : k \in 1..NumRandomReads }

\* the values one byte of rand.Read's buffer can take
ByteValues == 256

\* rand.Read outcomes in which every position of the buffer takes every byte value
AllRandomReads(length) == { RandomRead(k, length) : k \in 1..ByteValues }

\* namespaces a claim may live in
Namespaces == {Namespace, "prod"}

\* the status.bucketName values an earlier pass may have left
PriorNames == {"", "fixed", "old-x7k2p"}

CredData(v) == [endpoint  |-> "nas:8010",
                region    |-> "us-east-1",
                accessKey |-> "AK" \o v,
                secretKey |-> "SK" \o v]
\* the values of the secret's optional useSSL and insecureSkipVerify fields;
\* "" stands for a field that is absent
FlagValues == {"", "true", "false"}

\* a credential secret that carries the two optional fields
CredDataWithFlags(v, useSSL, insecureSkipVerify) ==
  [endpoint  |-> "nas:8010",
   region    |-> "us-east-1",
   accessKey |-> "AK" \o v,
   secretKey |-> "SK" \o v,
   useSSL    |-> useSSL,
   insecureSkipVerify |-> insecureSkipVerify]

CredVersions == {"1", "2"}

\* the specs a user may apply
UserSpecs == [bucketName : ExplicitNames, generateBucketName : Prefixes,
              retainPolicy : Policies]

-----------------------------------------------------------------------------
(* Types of api/v1alpha1 *)

ZeroSpec   == [bucketName |-> "", generateBucketName |-> "", retainPolicy |-> ""]
ZeroStatus == [phase |-> "", bucketName |-> "", secretRef |-> "", configMapRef |-> ""]
NoAnnotations == [k \in {annotationBucketName, annotationRetainPolicy} |-> ""]

\* a QuObjectBucketClaim as the store first holds it
NewClaim(name, spec) ==
  [name |-> name, namespace |-> Namespace, finalizers |-> {},
   deletionTimestamp |-> FALSE, annotations |-> NoAnnotations,
   spec |-> spec, status |-> ZeroStatus]

\* the zero value of QuObjectBucketClaim, which a pass holds before r.Get
\* fills it
ZeroClaim ==
  [name |-> "", namespace |-> "", finalizers |-> {},
   deletionTimestamp |-> FALSE, annotations |-> NoAnnotations,
   spec |-> ZeroSpec, status |-> ZeroStatus]

\* +kubebuilder:default=Retain on spec.retainPolicy
DefaultSpec(spec) ==
  IF spec.retainPolicy = "" THEN [spec EXCEPT !.retainPolicy = RetainPolicyRetain]
  ELSE spec

ZeroClient == [endpoint |-> "", region |-> "", accessKey |-> "", secretKey |-> "",
               insecureSkipVerify |-> FALSE, usePathStyle |-> FALSE]

-----------------------------------------------------------------------------
(* Maps: Go maps and the stores are functions over the keys present *)

Put(f, k, v) == [x \in DOMAIN f \cup {k} |-> IF x = k THEN v ELSE f[x]]
Drop(f, k)   == [x \in DOMAIN f \ {k} |-> f[x]]

Min(S) == CHOOSE x \in S : \A y \in S : x <= y

-----------------------------------------------------------------------------
(* Name Resolver *)

RECURSIVE Concat(_)
Concat(ss) == IF ss = << >> THEN "" ELSE Head(ss) \o Concat(Tail(ss))

\* a generateRandomString that maps one byte fewer than it was asked for
generateRandomStringShort(b) ==
  Concat([i \in 1..(Len(b) - 1) |-> charset[(b[i] % Len(charset)) + 1]])

\* generateRandomString: b[i] = charset[b[i] % byte(len(charset))]
generateRandomString(b) ==
  Concat([i \in 1..Len(b) |-> charset[(b[i] % Len(charset)) + 1]])

\* a determineBucketName that looks at status.bucketName before spec.bucketName
determineBucketNameStatusFirst(cl, rand) ==
  IF cl.status.bucketName # "" THEN cl.status.bucketName
  ELSE IF cl.spec.bucketName # "" THEN cl.spec.bucketName
  ELSE IF cl.spec.generateBucketName # ""
       THEN cl.spec.generateBucketName \o "-" \o generateRandomString(rand)
  ELSE cl.namespace \o "-" \o cl.name \o "-" \o generateRandomString(rand)

\* a determineBucketName that generates from the prefix before it looks at
\* status.bucketName
determineBucketNamePrefixFirst(cl, rand) ==
  IF cl.spec.bucketName # "" THEN cl.spec.bucketName
  ELSE IF cl.spec.generateBucketName # ""
       THEN cl.spec.generateBucketName \o "-" \o generateRandomString(rand)
  ELSE IF cl.status.bucketName # "" THEN cl.status.bucketName
  ELSE cl.namespace \o "-" \o cl.name \o "-" \o generateRandomString(rand)

\* a determineBucketName whose fallback pattern leaves the namespace out
determineBucketNameWithoutNamespace(cl, rand) ==
  IF cl.spec.bucketName # "" THEN cl.spec.bucketName
  ELSE IF cl.status.bucketName # "" THEN cl.status.bucketName
  ELSE IF cl.spec.generateBucketName # ""
       THEN cl.spec.generateBucketName \o "-" \o generateRandomString(rand)
  ELSE cl.name \o "-" \o generateRandomString(rand)

\* a determineBucketName that lacks the reuse of status.bucketName
determineBucketNameWithoutReuse(cl, rand) ==
  IF cl.spec.bucketName # "" THEN cl.spec.bucketName
  ELSE IF cl.spec.generateBucketName # ""
       THEN cl.spec.generateBucketName \o "-" \o generateRandomString(rand)
  ELSE cl.namespace \o "-" \o cl.name \o "-" \o generateRandomString(rand)

\* determineBucketName, with rand the bytes rand.Read would deliver
determineBucketName(cl, rand) ==
  IF cl.spec.bucketName # "" THEN cl.spec.bucketName
  ELSE IF cl.status.bucketName # "" THEN cl.status.bucketName
  ELSE IF cl.spec.generateBucketName # ""
       THEN cl.spec.generateBucketName \o "-" \o generateRandomString(rand)
  ELSE cl.namespace \o "-" \o cl.name \o "-" \o generateRandomString(rand)

-----------------------------------------------------------------------------
(* Storage Client Adapter: the backend's answers *)

\* err.Error() of an SDK error, as the words of the message
ErrorText(code) == << "operation", "error", "S3:", "api", "error", code >>

\* unicode.ToLower on the letters of an error message: the upper-case
\* letters and their lower-case forms
LowerLetter ==
  LET UpperLetters == "ABCDEFGHIJKLMNOPQRSTUVWXYZ"
      LowerLetters == "abcdefghijklmnopqrstuvwxyz"
  IN  [ch \in { SubSeq(UpperLetters, i, i) : i \in 1..Len(UpperLetters) } |->
         LET i == CHOOSE k \in 1..Len(UpperLetters) : SubSeq(UpperLetters, k, k) = ch
         IN  SubSeq(LowerLetters, i, i)]

\* strings.ToLower on one word: every upper-case letter is lowered, every
\* other character is kept
Lower(w) ==
  Concat([i \in 1..Len(w) |->
            LET ch == SubSeq(w, i, i)
            IN  IF ch \in DOMAIN LowerLetter THEN LowerLetter[ch] ELSE ch])

\* strings.ToLower and strings.Contains on the words of a message
ToLower(msg) == [i \in 1..Len(msg) |-> Lower(msg[i])]
Contains(msg, w) == \E i \in 1..Len(msg) : msg[i] = w

NoErr == ""

\* HEAD bucket
HeadBucketErr(b, name, fault) ==
  IF fault THEN "RequestTimeout"
  ELSE IF name \notin DOMAIN b THEN "NotFound"
  ELSE IF b[name].owner # "self" THEN "Forbidden"
  ELSE NoErr

\* PUT bucket
CreateBucketErr(b, name, fault) ==
  IF fault THEN "RequestTimeout"
  ELSE IF name \notin DOMAIN b THEN NoErr
  ELSE IF b[name].owner = "self" THEN "BucketAlreadyOwnedByYou"
  ELSE "BucketAlreadyExists"

\* GET bucket?list-type=2
ListObjectsErr(b, name, fault) ==
  IF fault THEN "RequestTimeout"
  ELSE IF name \notin DOMAIN b THEN "NoSuchBucket"
  ELSE IF b[name].owner # "self" THEN "AccessDenied"
  ELSE NoErr

RECURSIVE FirstKeys(_, _)
FirstKeys(S, n) ==
  IF S = {} \/ n = 0 THEN << >>
  ELSE << Min(S) >> \o FirstKeys(S \ {Min(S)}, n - 1)

\* Contents of one ListObjectsV2 response: the first keys in key order
ListContents(b, name) == FirstKeys(b[name].objects, ListMaxKeys)

\* DELETE object
DeleteObjectErr(b, name, fault) ==
  IF fault THEN "RequestTimeout"
  ELSE IF name \notin DOMAIN b THEN "NoSuchBucket"
  ELSE IF b[name].owner # "self" THEN "AccessDenied"
  ELSE NoErr

\* DELETE bucket
DeleteBucketErr(b, name, fault) ==
  IF fault THEN "RequestTimeout"
  ELSE IF name \notin DOMAIN b THEN "NoSuchBucket"
  ELSE IF b[name].owner # "self" THEN "AccessDenied"
  ELSE IF b[name].objects # {} THEN "BucketNotEmpty"
  ELSE NoErr

\* a forgiveness test on the message as delivered, not lowered
CreateErrorForgivenCaseSensitive(code) ==
  LET l == ErrorText(code)
  IN  Contains(l, "bucketalreadyownedbyyou") \/ Contains(l, "bucketalreadyexists")

\* ensureBucket: the error class the create call's failure is forgiven for
CreateErrorForgiven(code) ==
  LET l == ToLower(ErrorText(code))
  IN  Contains(l, "bucketalreadyownedbyyou") \/ Contains(l, "bucketalreadyexists")

\* a forgiveness test that matches every error naming the bucket
DeleteErrorForgivenForAnyBucketError(code) ==
  LET l == ToLower(ErrorText(code))
  IN  Contains(l, "nosuchbucket") \/ Contains(l, "bucketnotempty")

\* deleteBucket: the error class the bucket delete's failure is forgiven for
DeleteErrorForgiven(code) ==
  Contains(ToLower(ErrorText(code)), "nosuchbucket")

\* newS3Client(endpoint, region, accessKey, secretKey, useSSL, forcePath)
newS3Client(endpoint, region, accessKey, secretKey, useSSL, forcePath) ==
  [endpoint |-> endpoint, region |-> region, accessKey |-> accessKey,
   secretKey |-> secretKey, insecureSkipVerify |-> FALSE,
   usePathStyle |-> forcePath]

-----------------------------------------------------------------------------
(* Artifact Synchronizer *)

\* a Secret name that does not carry the claim's name
SecretNameShared(cl) == "bucket-secret"

SecretName(cl)    == cl.name \o "-bucket-secret"
ConfigMapName(cl) == cl.name \o "-bucket-config"

\* a Secret built from the credentials the controller started with
DesiredSecretFromFirstCredentials(cl, c3, bn) ==
  [name |-> SecretName(cl), type |-> "Opaque", owner |-> cl.name,
   stringData |-> [k \in {"AWS_ACCESS_KEY_ID", "AWS_SECRET_ACCESS_KEY",
                          "BUCKET_NAME", "BUCKET_HOST", "BUCKET_REGION"} |->
                    CASE k = "AWS_ACCESS_KEY_ID"     -> CredData("1").accessKey
                      [] k = "AWS_SECRET_ACCESS_KEY" -> CredData("1").secretKey
                      [] k = "BUCKET_NAME"           -> bn
                      [] k = "BUCKET_HOST"           -> c3.endpoint
                      [] k = "BUCKET_REGION"         -> c3.region]]

\* a Secret built without the SetControllerReference call
DesiredSecretWithoutOwner(cl, c3, bn) ==
  [name |-> SecretName(cl), type |-> "Opaque", owner |-> "",
   stringData |-> [k \in {"AWS_ACCESS_KEY_ID", "AWS_SECRET_ACCESS_KEY",
                          "BUCKET_NAME", "BUCKET_HOST", "BUCKET_REGION"} |->
                    CASE k = "AWS_ACCESS_KEY_ID"     -> c3.accessKey
                      [] k = "AWS_SECRET_ACCESS_KEY" -> c3.secretKey
                      [] k = "BUCKET_NAME"           -> bn
                      [] k = "BUCKET_HOST"           -> c3.endpoint
                      [] k = "BUCKET_REGION"         -> c3.region]]

\* the Secret Reconcile builds, after SetControllerReference
DesiredSecret(cl, c3, bn) ==
  [name |-> SecretName(cl), type |-> "Opaque", owner |-> cl.name,
   stringData |-> [k \in {"AWS_ACCESS_KEY_ID", "AWS_SECRET_ACCESS_KEY",
                          "BUCKET_NAME", "BUCKET_HOST", "BUCKET_REGION"} |->
                    CASE k = "AWS_ACCESS_KEY_ID"     -> c3.accessKey
                      [] k = "AWS_SECRET_ACCESS_KEY" -> c3.secretKey
                      [] k = "BUCKET_NAME"           -> bn
                      [] k = "BUCKET_HOST"           -> c3.endpoint
                      [] k = "BUCKET_REGION"         -> c3.region]]

\* the ConfigMap Reconcile builds, after SetControllerReference
DesiredConfigMap(cl, c3, bn) ==
  [name |-> ConfigMapName(cl), owner |-> cl.name,
   data |-> [k \in {"BUCKET_NAME", "BUCKET_HOST", "BUCKET_REGION", "BUCKET_PORT"} |->
              CASE k = "BUCKET_NAME"   -> bn
                [] k = "BUCKET_HOST"   -> c3.endpoint
                [] k = "BUCKET_REGION" -> c3.region
                [] k = "BUCKET_PORT"   -> "443"]]

\* the API server folds a written Secret's stringData into its data
MergeStringData(data, stringData) ==
  [k \in DOMAIN data \cup DOMAIN stringData |->
     IF k \in DOMAIN stringData THEN stringData[k] ELSE data[k]]

\* upsertSecret: Create when absent, else overwrite StringData and Type of the
\* existing object and Update it
upsertSecret(st, s) ==
  IF s.name \notin DOMAIN st
  THEN Put(st, s.name, [type |-> s.type, owner |-> s.owner,
                        data |-> MergeStringData(<< >>, s.stringData)])
  ELSE Put(st, s.name, [st[s.name] EXCEPT
                          !.type = s.type,
                          !.data = MergeStringData(st[s.name].data, s.stringData)])

\* upsertConfigMap: Create when absent, else overwrite Data of the existing
\* object and Update it
upsertConfigMap(st, m) ==
  IF m.name \notin DOMAIN st
  THEN Put(st, m.name, [owner |-> m.owner, data |-> m.data])
  ELSE Put(st, m.name, [st[m.name] EXCEPT !.data = m.data])

-----------------------------------------------------------------------------
(* Claim Store Client *)

\* a store that accepts a write whatever resourceVersion it carries
CanWriteAnyVersion(c) == c \in DOMAIN store

\* an Update or Status().Update of the pass's object is accepted: the object
\* is still stored and its resourceVersion is the one the pass holds
CanWrite(c) == c \in DOMAIN store /\ ~stale[c]

\* r.Update(ctx, obj): metadata and spec are written, the status subresource
\* is not; an object that is being deleted and has no finalizer left is removed
Update(st, c, obj) ==
  LET new == [st[c] EXCEPT !.finalizers = obj.finalizers,
                           !.annotations = obj.annotations,
                           !.spec = obj.spec]
  IN  IF new.deletionTimestamp /\ new.finalizers = {} THEN Drop(st, c)
      ELSE Put(st, c, new)

\* r.Status().Update(ctx, obj): only the status is written
StatusUpdate(st, c, obj) == Put(st, c, [st[c] EXCEPT !.status = obj.status])

\* the object a successful write decodes back into the pass's claim
Written(st, c, obj) == IF c \in DOMAIN st THEN st[c] ELSE obj

-----------------------------------------------------------------------------
(* Reconciliation Engine *)

\* the claims of S have been applied with some spec and await their first pass
InitWith(S) ==
  /\ store \in { [c \in S |-> NewClaim(c, DefaultSpec(f[c]))] : f \in [S -> UserSpecs] }
  /\ secrets = << >>
  /\ configMaps = << >>
  /\ credSecrets = [n \in {credSecretName} |-> CredData("1")]
  /\ buckets = << >>
  /\ pc = [c \in Claims |-> "idle"]
  /\ claim = [c \in Claims |-> ZeroClaim]
  /\ s3Client = [c \in Claims |-> ZeroClient]
  /\ bucketName = [c \in Claims |-> ""]
  /\ listResp = [c \in Claims |-> << >>]
  /\ existing = [c \in Claims |-> << >>]
  /\ outdated = [c \in Claims |-> FALSE]
  /\ stale = [c \in Claims |-> FALSE]
  /\ path = [c \in Claims |-> "none"]
  /\ result = [c \in Claims |-> "none"]
  /\ attempted = [c \in Claims |-> FALSE]
  /\ delResult = [c \in Claims |-> "none"]
  /\ disturbed = [c \in Claims |-> FALSE]
  /\ faults = 0
  /\ edits = 0

\* a failure may be injected into a steady-state round trip
MayFail == faults < MaxFaults

\* the round trip failed although nothing in the state forced it to
Injected(failed, forced) ==
  faults' = IF failed /\ ~forced THEN faults + 1 ELSE faults

\* the pass returns res ("ok": nil; "err": an error, which has the request
\* delivered again)
Return(c, res) ==
  /\ pc' = [pc EXCEPT ![c] = "idle"]
  /\ result' = [result EXCEPT ![c] = res]
  /\ claim' = [claim EXCEPT ![c] = ZeroClaim]
  /\ s3Client' = [s3Client EXCEPT ![c] = ZeroClient]
  /\ listResp' = [listResp EXCEPT ![c] = << >>]
  /\ existing' = [existing EXCEPT ![c] = << >>]
  /\ outdated' = [outdated EXCEPT ![c] = FALSE]
  /\ stale' = [stale EXCEPT ![c] = FALSE]
  /\ delResult' = [delResult EXCEPT ![c] = "none"]
  /\ disturbed' = [disturbed EXCEPT ![c] = FALSE]

\* the pass goes on to its next round trip
Goto(c, next) ==
  /\ pc' = [pc EXCEPT ![c] = next]
  /\ UNCHANGED <<result, stale>>

\* a handleDeletion that prefers status.bucketName to the annotation
DeletionBucketStatusFirst(cl) ==
  IF cl.spec.retainPolicy = RetainPolicyDelete
  THEN IF cl.status.bucketName # ""
       THEN cl.status.bucketName
       ELSE cl.annotations[annotationBucketName]
  ELSE ""

\* a handleDeletion that looks up the bucket without testing the retain policy
DeletionBucketWhateverPolicy(cl) ==
  IF cl.annotations[annotationBucketName] # ""
  THEN cl.annotations[annotationBucketName]
  ELSE cl.status.bucketName

\* a handleDeletion that goes by the retain-policy annotation, not by the spec
DeletionBucketByAnnotatedPolicy(cl) ==
  IF cl.annotations[annotationRetainPolicy] = RetainPolicyDelete
  THEN IF cl.annotations[annotationBucketName] # ""
       THEN cl.annotations[annotationBucketName]
       ELSE cl.status.bucketName
  ELSE ""

\* handleDeletion, lines 344-351: the bucket to delete, "" when there is none
DeletionBucket(cl) ==
  IF cl.spec.retainPolicy = RetainPolicyDelete
  THEN IF cl.annotations[annotationBucketName] # ""
       THEN cl.annotations[annotationBucketName]
       ELSE cl.status.bucketName
  ELSE ""

\* a first step that does not look at the deletion timestamp
FirstStepIgnoringDeletion(cl) ==
  IF finalizerName \in cl.finalizers THEN "getCredentials" ELSE "addFinalizer"

\* a first step that runs the deletion sequence without testing for the
\* finalizer
FirstStepWithoutFinalizerTest(cl) ==
  IF cl.deletionTimestamp
  THEN IF DeletionBucket(cl) # "" THEN "delGetCredentials" ELSE "removeFinalizer"
  ELSE IF finalizerName \in cl.finalizers THEN "getCredentials"
  ELSE "addFinalizer"

\* where a pass that loaded cl goes first
FirstStep(cl) ==
  IF cl.deletionTimestamp
  THEN IF finalizerName \notin cl.finalizers THEN "idle"
       ELSE IF DeletionBucket(cl) # "" THEN "delGetCredentials"
       ELSE "removeFinalizer"
  ELSE IF finalizerName \in cl.finalizers THEN "getCredentials"
  ELSE "addFinalizer"

\* the branch a pass that loaded cl takes
PathOf(cl) ==
  IF cl.deletionTimestamp
  THEN IF finalizerName \notin cl.finalizers THEN "gone" ELSE "deletion"
  ELSE IF finalizerName \in cl.finalizers THEN "steady"
  ELSE "new"

\* a request that is not delivered again after its pass returned an error
GetWithoutRedelivery(c) ==
  /\ pc[c] = "idle"
  /\ result[c] # "err"
  /\ \E fault \in BOOLEAN :
       /\ fault => MayFail
       /\ Injected(fault, FALSE)
       /\ IF fault
          THEN /\ result' = [result EXCEPT ![c] = "err"]
               /\ UNCHANGED <<pc, claim, bucketName, path>>
          ELSE IF c \notin DOMAIN store \/ FirstStep(store[c]) = "idle"
          THEN /\ path' = [path EXCEPT ![c] = IF c \notin DOMAIN store THEN "notfound"
                                              ELSE "gone"]
               /\ result' = [result EXCEPT ![c] = "ok"]
               /\ UNCHANGED <<pc, claim, bucketName>>
          ELSE /\ claim' = [claim EXCEPT ![c] = store[c]]
               /\ result' = [result EXCEPT ![c] = "none"]
               /\ path' = [path EXCEPT ![c] = PathOf(store[c])]
               /\ pc' = [pc EXCEPT ![c] = FirstStep(store[c])]
               /\ bucketName' = [bucketName EXCEPT ![c] =
                                   IF store[c].deletionTimestamp
                                   THEN DeletionBucket(store[c]) ELSE @]
  /\ UNCHANGED <<store, artifactVars, credSecrets, buckets, s3Client, listResp, existing, outdated,
                 stale, attempted, delResult, disturbed, edits>>

\* Reconcile, lines 152-167: r.Get and the branch on what it returned; for a
\* claim being deleted, handleDeletion up to its first round trip (338-351)
Get(c) ==
  /\ pc[c] = "idle"
  /\ \E fault \in BOOLEAN :
       /\ fault => MayFail
       /\ Injected(fault, FALSE)
       /\ IF fault
          THEN /\ result' = [result EXCEPT ![c] = "err"]
               /\ UNCHANGED <<pc, claim, bucketName, path>>
          ELSE IF c \notin DOMAIN store \/ FirstStep(store[c]) = "idle"
          THEN /\ path' = [path EXCEPT ![c] = IF c \notin DOMAIN store THEN "notfound"
                                              ELSE "gone"]
               /\ result' = [result EXCEPT ![c] = "ok"]
               /\ UNCHANGED <<pc, claim, bucketName>>
          ELSE /\ claim' = [claim EXCEPT ![c] = store[c]]
               /\ result' = [result EXCEPT ![c] = "none"]
               /\ path' = [path EXCEPT ![c] = PathOf(store[c])]
               /\ pc' = [pc EXCEPT ![c] = FirstStep(store[c])]
               /\ bucketName' = [bucketName EXCEPT ![c] =
                                   IF store[c].deletionTimestamp
                                   THEN DeletionBucket(store[c]) ELSE @]
  /\ UNCHANGED <<store, artifactVars, credSecrets, buckets, s3Client, listResp, existing, outdated,
                 stale, attempted, delResult, disturbed, edits>>

\* an AddFinalizer step that goes on although r.Update returned an error
AddFinalizerUnchecked(c) ==
  /\ pc[c] = "addFinalizer"
  /\ \E ok \in BOOLEAN :
       /\ ok => CanWrite(c)
       /\ ~ok => (MayFail \/ ~CanWrite(c))
       /\ Injected(~ok, ~CanWrite(c))
       /\ LET obj == [claim[c] EXCEPT !.finalizers = @ \cup {finalizerName}] IN
          /\ store' = IF ok THEN Update(store, c, obj) ELSE store
          /\ claim' = [claim EXCEPT ![c] = IF ok THEN Written(store', c, obj) ELSE obj]
          /\ Goto(c, "getCredentials")
          /\ UNCHANGED <<s3Client, listResp, existing, outdated, delResult, disturbed>>
  /\ UNCHANGED <<artifactVars, credSecrets, buckets, bucketName, path, attempted, edits>>

\* Reconcile, lines 169-175: AddFinalizer and r.Update
AddFinalizer(c) ==
  /\ pc[c] = "addFinalizer"
  /\ \E ok \in BOOLEAN :
       /\ ok => CanWrite(c)
       /\ ~ok => (MayFail \/ ~CanWrite(c))
       /\ Injected(~ok, ~CanWrite(c))
       /\ LET obj == [claim[c] EXCEPT !.finalizers = @ \cup {finalizerName}] IN
          IF ok
          THEN /\ store' = Update(store, c, obj)
               /\ claim' = [claim EXCEPT ![c] = Written(store', c, obj)]
               /\ Goto(c, "getCredentials")
               /\ UNCHANGED <<s3Client, listResp, existing, outdated, delResult, disturbed>>
          ELSE /\ Return(c, "err")
               /\ UNCHANGED store
  /\ UNCHANGED <<artifactVars, credSecrets, buckets, bucketName, path, attempted, edits>>

\* a GetCredentials step that only logs the failure of r.Get and goes on
GetCredentialsIgnoringFailure(c) ==
  /\ pc[c] = "getCredentials"
  /\ \E fault \in BOOLEAN :
       /\ fault => MayFail
       /\ Injected(fault, FALSE)
       /\ IF fault \/ credSecretName \notin DOMAIN credSecrets
          THEN /\ Goto(c, "annotate")
               /\ UNCHANGED <<claim, s3Client>>
          ELSE LET d == credSecrets[credSecretName] IN
               /\ s3Client' = [s3Client EXCEPT ![c] =
                    newS3Client(d.endpoint, d.region, d.accessKey, d.secretKey, TRUE, TRUE)]
               /\ Goto(c, "annotate")
               /\ UNCHANGED claim
  /\ UNCHANGED <<store, artifactVars, credSecrets, buckets, bucketName, listResp, existing, outdated,
                 path, attempted, delResult, disturbed, edits>>

\* Reconcile, lines 180-206: the credential secret and the S3 client
GetCredentials(c) ==
  /\ pc[c] = "getCredentials"
  /\ \E fault \in BOOLEAN :
       /\ fault => MayFail
       /\ Injected(fault, FALSE)
       /\ IF fault \/ credSecretName \notin DOMAIN credSecrets
          THEN /\ claim' = [claim EXCEPT ![c].status.phase = "Error"]
               /\ Goto(c, "statusError")
               /\ UNCHANGED s3Client
          ELSE LET d == credSecrets[credSecretName] IN
               /\ s3Client' = [s3Client EXCEPT ![c] =
                    newS3Client(d.endpoint, d.region, d.accessKey, d.secretKey, TRUE, TRUE)]
               /\ Goto(c, "annotate")
               /\ UNCHANGED claim
  /\ UNCHANGED <<store, artifactVars, credSecrets, buckets, bucketName, listResp, existing, outdated,
                 path, attempted, delResult, disturbed, edits>>

\* a StatusError step that writes a status holding nothing but phase Error
StatusErrorResettingStatus(c) ==
  /\ pc[c] = "statusError"
  /\ \E ok \in BOOLEAN :
       /\ ok => CanWrite(c)
       /\ store' = IF ok
                   THEN StatusUpdate(store, c,
                          [claim[c] EXCEPT !.status = [ZeroStatus EXCEPT !.phase = "Error"]])
                   ELSE store
  /\ Return(c, "err")
  /\ UNCHANGED <<artifactVars, credSecrets, buckets, bucketName, path, attempted,
                 faults, edits>>

\* the three places that set Status.Phase = "Error" (188, 203, 225), call
\* Status().Update without looking at its result, and return the error
StatusError(c) ==
  /\ pc[c] = "statusError"
  /\ \E ok \in BOOLEAN :
       /\ ok => CanWrite(c)
       /\ store' = IF ok THEN StatusUpdate(store, c, claim[c]) ELSE store
  /\ Return(c, "err")
  /\ UNCHANGED <<artifactVars, credSecrets, buckets, bucketName, path, attempted,
                 faults, edits>>

\* the claim Reconcile hands to r.Update at line 217
Annotated(cl, bn) ==
  [cl EXCEPT !.annotations[annotationBucketName] = bn,
             !.annotations[annotationRetainPolicy] = cl.spec.retainPolicy]

\* Reconcile, lines 208-219: determineBucketName, the two annotations, r.Update
Annotate(c) ==
  /\ pc[c] = "annotate"
  /\ \E rand \in RandomReads(5), ok \in BOOLEAN :
       /\ ok => CanWrite(c)
       /\ ~ok => (MayFail \/ ~CanWrite(c))
       /\ Injected(~ok, ~CanWrite(c))
       /\ LET bn  == determineBucketName(claim[c], rand)
              obj == Annotated(claim[c], bn)
          IN  /\ bucketName' = [bucketName EXCEPT ![c] = bn]
              /\ IF ok
                 THEN /\ store' = Update(store, c, obj)
                      /\ claim' = [claim EXCEPT ![c] = Written(store', c, obj)]
                      /\ Goto(c, "headBucket")
                      /\ UNCHANGED <<s3Client, listResp, existing, outdated, delResult, disturbed>>
                 ELSE /\ Return(c, "err")
                      /\ UNCHANGED store
  /\ UNCHANGED <<artifactVars, credSecrets, buckets, path, attempted, edits>>

\* Reconcile, line 209 alone: bucketName := r.determineBucketName(claim)
DetermineBucketName(c) ==
  /\ pc[c] = "annotate"
  /\ \E rand \in AllRandomReads(5) :
       bucketName' = [bucketName EXCEPT ![c] = determineBucketName(claim[c], rand)]
  /\ UNCHANGED <<store, artifactVars, credSecrets, buckets, pc, claim, s3Client,
                 listResp, existing, outdated, stale, path, result, attempted, delResult, disturbed,
                 faults, edits>>

-----------------------------------------------------------------------------
(* Steady-state path: bucket, artifacts, status *)

\* an ensureBucket that issues the create call whatever the probe answered
EnsureAfterHeadAlwaysCreate(headErr) == "create"

\* ensureBucket, lines 471-474: what the probe's answer decides
EnsureAfterHead(headErr) == IF headErr = NoErr THEN "return" ELSE "create"

\* an ensureBucket that returns nil whatever the create call answered
EnsureAfterCreateForgivingAll(createErr) == NoErr

\* ensureBucket, lines 482-489: the error ensureBucket returns after the create call
EnsureAfterCreate(createErr) ==
  IF createErr # NoErr /\ ~CreateErrorForgiven(createErr) THEN createErr ELSE NoErr

\* ensureBucket, lines 471-474: the existence probe
HeadBucket(c) ==
  /\ pc[c] = "headBucket"
  /\ \E fault \in BOOLEAN :
       /\ fault => MayFail
       /\ Injected(fault, FALSE)
       /\ LET err == HeadBucketErr(buckets, bucketName[c], fault) IN
          Goto(c, IF EnsureAfterHead(err) = "return" THEN "upsertSecret"
                  ELSE "createBucket")
  /\ attempted' = [attempted EXCEPT ![c] = TRUE]
  /\ UNCHANGED <<store, artifactVars, credSecrets, buckets, claim, s3Client,
                 bucketName, listResp, existing, outdated, path, delResult, disturbed, edits>>

\* a CreateBucket step that returns ensureBucket's error without touching the
\* status
CreateBucketSkippingStatus(c) ==
  /\ pc[c] = "createBucket"
  /\ \E fault \in BOOLEAN :
       /\ fault => MayFail
       /\ Injected(fault, FALSE)
       /\ LET err == CreateBucketErr(buckets, bucketName[c], fault) IN
          /\ buckets' = IF err = NoErr
                        THEN Put(buckets, bucketName[c],
                                 [owner |-> "self", objects |-> {}])
                        ELSE buckets
          /\ IF EnsureAfterCreate(err) # NoErr
             THEN Return(c, "err")
             ELSE /\ Goto(c, "upsertSecret")
                  /\ UNCHANGED <<claim, s3Client, listResp, existing, outdated, delResult, disturbed>>
  /\ attempted' = [attempted EXCEPT ![c] = TRUE]
  /\ UNCHANGED <<store, artifactVars, credSecrets, bucketName, path, edits>>

\* ensureBucket, lines 476-489, and Reconcile's handling of its error, 223-228
CreateBucket(c) ==
  /\ pc[c] = "createBucket"
  /\ \E fault \in BOOLEAN :
       /\ fault => MayFail
       /\ Injected(fault, FALSE)
       /\ LET err == CreateBucketErr(buckets, bucketName[c], fault) IN
          /\ buckets' = IF err = NoErr
                        THEN Put(buckets, bucketName[c],
                                 [owner |-> "self", objects |-> {}])
                        ELSE buckets
          /\ IF EnsureAfterCreate(err) # NoErr
             THEN /\ claim' = [claim EXCEPT ![c].status.phase = "Error"]
                  /\ Goto(c, "statusError")
             ELSE /\ Goto(c, "upsertSecret")
                  /\ UNCHANGED claim
  /\ attempted' = [attempted EXCEPT ![c] = TRUE]
  /\ UNCHANGED <<store, artifactVars, credSecrets, s3Client, bucketName, listResp, existing, outdated,
                 path, delResult, disturbed, edits>>

\* what c.Get of the object named n answers from store st: the object, or
\* nothing when it is not found
Found(st, n) == IF n \in DOMAIN st THEN <<st[n]>> ELSE << >>

\* an UpsertSecret step that treats the failure like ensureBucket's: phase
\* Error, a status write, then the error
UpsertSecretSettingError(c) ==
  /\ pc[c] = "upsertSecret"
  /\ \E ok \in BOOLEAN :
       /\ ~ok => MayFail
       /\ Injected(~ok, FALSE)
       /\ IF ok
          THEN /\ existing' = [existing EXCEPT ![c] =
                                 Found(secrets, SecretName(claim[c]))]
               /\ outdated' = [outdated EXCEPT ![c] = FALSE]
               /\ Goto(c, "writeSecret")
               /\ UNCHANGED claim
          ELSE /\ claim' = [claim EXCEPT ![c].status.phase = "Error"]
               /\ Goto(c, "statusError")
               /\ UNCHANGED <<existing, outdated>>
  /\ UNCHANGED <<store, artifactVars, credSecrets, buckets, s3Client, bucketName,
                 listResp, path, attempted, delResult, disturbed, edits>>

\* Reconcile, lines 230-252, and upsertSecret, lines 493-499: the Secret is
\* built and upsertSecret reads the stored one with c.Get
UpsertSecret(c) ==
  /\ pc[c] = "upsertSecret"
  /\ \E ok \in BOOLEAN :
       /\ ~ok => MayFail
       /\ Injected(~ok, FALSE)
       /\ IF ok
          THEN /\ existing' = [existing EXCEPT ![c] =
                                 Found(secrets, SecretName(claim[c]))]
               /\ outdated' = [outdated EXCEPT ![c] = FALSE]
               /\ Goto(c, "writeSecret")
               /\ UNCHANGED <<claim, s3Client, listResp, delResult, disturbed>>
          ELSE Return(c, "err")
  /\ UNCHANGED <<store, artifactVars, credSecrets, buckets, bucketName, path,
                 attempted, edits>>

\* upsertSecret, lines 495-502, and Reconcile, lines 252-255: c.Create when
\* c.Get found nothing, else c.Update of the object it found. The API server
\* refuses c.Create when the object exists by now (AlreadyExists) and
\* c.Update when it is gone (NotFound) or when someone has written it since
\* c.Get read it, were it to the same content (Conflict: the resourceVersion
\* is not the one read); a write that is not refused finds the store as c.Get
\* left it, so what upsertSecret makes of the store is what the write stores.
\* The write moves the resourceVersion on for every other pass that read the
\* object
WriteSecret(c) ==
  /\ pc[c] = "writeSecret"
  /\ LET s == DesiredSecret(claim[c], s3Client[c], bucketName[c])
         refused == IF existing[c] = << >>
                    THEN s.name \in DOMAIN secrets
                    ELSE s.name \notin DOMAIN secrets \/ outdated[c]
     IN
     \E ok \in BOOLEAN :
       /\ ok => ~refused
       /\ ~ok => (MayFail \/ refused)
       /\ Injected(~ok, refused)
       /\ IF ok
          THEN /\ secrets' = upsertSecret(secrets, s)
               /\ existing' = [existing EXCEPT ![c] = << >>]
               /\ outdated' = [d \in Claims |->
                    /\ d # c
                    /\ \/ outdated[d]
                       \/ pc[d] = "writeSecret" /\ SecretName(claim[d]) = s.name]
               /\ Goto(c, "upsertConfigMap")
               /\ UNCHANGED <<claim, s3Client, listResp, delResult, disturbed>>
          ELSE /\ Return(c, "err")
               /\ UNCHANGED secrets
  /\ UNCHANGED <<store, configMaps, credSecrets, buckets, bucketName, path, attempted,
                 edits>>

\* Reconcile, lines 257-277, and upsertConfigMap, lines 506-512: the
\* ConfigMap is built and upsertConfigMap reads the stored one with c.Get
UpsertConfigMap(c) ==
  /\ pc[c] = "upsertConfigMap"
  /\ \E ok \in BOOLEAN :
       /\ ~ok => MayFail
       /\ Injected(~ok, FALSE)
       /\ IF ok
          THEN /\ existing' = [existing EXCEPT ![c] =
                                 Found(configMaps, ConfigMapName(claim[c]))]
               /\ outdated' = [outdated EXCEPT ![c] = FALSE]
               /\ Goto(c, "writeConfigMap")
               /\ UNCHANGED <<claim, s3Client, listResp, delResult, disturbed>>
          ELSE Return(c, "err")
  /\ UNCHANGED <<store, artifactVars, credSecrets, buckets, bucketName, path,
                 attempted, edits>>

\* upsertConfigMap, lines 508-514, and Reconcile, lines 277-280: c.Create
\* when c.Get found nothing, else c.Update of the object it found, refused
\* and stored as for the Secret
WriteConfigMap(c) ==
  /\ pc[c] = "writeConfigMap"
  /\ LET m == DesiredConfigMap(claim[c], s3Client[c], bucketName[c])
         refused == IF existing[c] = << >>
                    THEN m.name \in DOMAIN configMaps
                    ELSE m.name \notin DOMAIN configMaps \/ outdated[c]
     IN
     \E ok \in BOOLEAN :
       /\ ok => ~refused
       /\ ~ok => (MayFail \/ refused)
       /\ Injected(~ok, refused)
       /\ IF ok
          THEN /\ configMaps' = upsertConfigMap(configMaps, m)
               /\ existing' = [existing EXCEPT ![c] = << >>]
               /\ outdated' = [d \in Claims |->
                    /\ d # c
                    /\ \/ outdated[d]
                       \/ pc[d] = "writeConfigMap" /\ ConfigMapName(claim[d]) = m.name]
               /\ Goto(c, "statusBound")
               /\ UNCHANGED <<claim, s3Client, listResp, delResult, disturbed>>
          ELSE /\ Return(c, "err")
               /\ UNCHANGED configMaps
  /\ UNCHANGED <<store, secrets, credSecrets, buckets, bucketName, path, attempted,
                 edits>>

\* a status that records the name the spec asks for, not the resolved one
BoundStatusFromSpec(cl, bn) ==
  [phase |-> "Bound", bucketName |-> cl.spec.bucketName,
   secretRef |-> SecretName(cl), configMapRef |-> ConfigMapName(cl)]

\* the status Reconcile sets at lines 282-286
BoundStatus(cl, bn) ==
  [phase |-> "Bound", bucketName |-> bn,
   secretRef |-> SecretName(cl), configMapRef |-> ConfigMapName(cl)]

\* Reconcile, lines 282-294: the final status write
StatusBound(c) ==
  /\ pc[c] = "statusBound"
  /\ \E ok \in BOOLEAN :
       /\ ok => CanWrite(c)
       /\ ~ok => (MayFail \/ ~CanWrite(c))
       /\ Injected(~ok, ~CanWrite(c))
       /\ LET obj == [claim[c] EXCEPT !.status = BoundStatus(claim[c], bucketName[c])] IN
          store' = IF ok THEN StatusUpdate(store, c, obj) ELSE store
       /\ Return(c, IF ok THEN "ok" ELSE "err")
  /\ UNCHANGED <<artifactVars, credSecrets, buckets, bucketName, path, attempted, edits>>

-----------------------------------------------------------------------------
(* Deletion path *)

\* handleDeletion goes on to remove the finalizer; res is what deleteBucket
\* returned ("none" when it was not called)
AfterDelete(c, res) ==
  /\ Goto(c, "removeFinalizer")
  /\ delResult' = [delResult EXCEPT ![c] = res]
  /\ listResp' = [listResp EXCEPT ![c] = << >>]
  /\ UNCHANGED <<existing, outdated>>

\* handleDeletion, lines 354-371: the credential secret and the S3 client
DelGetCredentials(c) ==
  /\ pc[c] = "delGetCredentials"
  /\ \E fault \in BOOLEAN :
       IF fault \/ credSecretName \notin DOMAIN credSecrets
       THEN /\ AfterDelete(c, "none")
            /\ UNCHANGED s3Client
       ELSE LET d == credSecrets[credSecretName] IN
            /\ s3Client' = [s3Client EXCEPT ![c] =
                 newS3Client(d.endpoint, d.region, d.accessKey, d.secretKey, TRUE, TRUE)]
            /\ Goto(c, "listObjects")
            /\ UNCHANGED <<delResult, listResp, existing, outdated>>
  /\ UNCHANGED <<store, artifactVars, credSecrets, buckets, claim, bucketName,
                 path, attempted, disturbed, faults, edits>>

\* deleteBucket, lines 401-406: one ListObjectsV2 call
ListObjects(c) ==
  /\ pc[c] = "listObjects"
  /\ \E fault \in BOOLEAN :
       LET err == ListObjectsErr(buckets, bucketName[c], fault) IN
       /\ disturbed' = [disturbed EXCEPT ![c] = @ \/ fault]
       /\ IF err # NoErr
          THEN AfterDelete(c, "err")
          ELSE LET keys == ListContents(buckets, bucketName[c]) IN
               /\ listResp' = [listResp EXCEPT ![c] = keys]
               /\ Goto(c, IF keys = << >> THEN "deleteBucket" ELSE "deleteObject")
               /\ UNCHANGED <<delResult, existing, outdated>>
  /\ UNCHANGED <<store, artifactVars, credSecrets, buckets, claim, s3Client,
                 bucketName, path, attempted, faults, edits>>

\* a DeleteObject step that skips a key it could not delete and goes on with
\* the loop
DeleteObjectContinuing(c) ==
  /\ pc[c] = "deleteObject"
  /\ \E fault \in BOOLEAN :
       LET err == DeleteObjectErr(buckets, bucketName[c], fault)
           key == Head(listResp[c])
       IN
       /\ disturbed' = [disturbed EXCEPT ![c] = @ \/ fault]
       /\ buckets' = IF err # NoErr THEN buckets
                     ELSE [buckets EXCEPT ![bucketName[c]].objects = @ \ {key}]
       /\ listResp' = [listResp EXCEPT ![c] = Tail(@)]
       /\ Goto(c, IF Tail(listResp[c]) = << >> THEN "deleteBucket"
                  ELSE "deleteObject")
       /\ UNCHANGED <<delResult, existing, outdated>>
  /\ UNCHANGED <<store, artifactVars, credSecrets, claim, s3Client,
                 bucketName, path, attempted, faults, edits>>

\* deleteBucket, lines 409-417: one DeleteObject call of the loop
DeleteObject(c) ==
  /\ pc[c] = "deleteObject"
  /\ \E fault \in BOOLEAN :
       LET err == DeleteObjectErr(buckets, bucketName[c], fault)
           key == Head(listResp[c])
       IN
       /\ disturbed' = [disturbed EXCEPT ![c] = @ \/ fault]
       /\ IF err # NoErr
          THEN /\ AfterDelete(c, "err")
               /\ UNCHANGED buckets
          ELSE /\ buckets' = [buckets EXCEPT ![bucketName[c]].objects = @ \ {key}]
               /\ listResp' = [listResp EXCEPT ![c] = Tail(@)]
               /\ Goto(c, IF Tail(listResp[c]) = << >> THEN "deleteBucket"
                          ELSE "deleteObject")
               /\ UNCHANGED <<delResult, existing, outdated>>
  /\ UNCHANGED <<store, artifactVars, credSecrets, claim, s3Client,
                 bucketName, path, attempted, faults, edits>>

\* deleteBucket, lines 423-431: what it returns after the DeleteBucket call
DeleteBucketReturn(err) ==
  IF err # NoErr /\ ~DeleteErrorForgiven(err) THEN "err" ELSE "ok"

\* a handleDeletion that returns the error of deleteBucket to its caller
DeleteBucketPropagating(c) ==
  /\ pc[c] = "deleteBucket"
  /\ \E fault \in BOOLEAN :
       LET err == DeleteBucketErr(buckets, bucketName[c], fault) IN
       /\ buckets' = IF err = NoErr THEN Drop(buckets, bucketName[c]) ELSE buckets
       /\ IF DeleteBucketReturn(err) = "err"
          THEN Return(c, "err")
          ELSE /\ AfterDelete(c, "ok")
               /\ disturbed' = [disturbed EXCEPT ![c] = @ \/ fault]
               /\ UNCHANGED <<claim, s3Client>>
  /\ UNCHANGED <<store, artifactVars, credSecrets, bucketName, path, attempted,
                 faults, edits>>

\* deleteBucket, lines 419-431: the DeleteBucket call
DeleteBucket(c) ==
  /\ pc[c] = "deleteBucket"
  /\ \E fault \in BOOLEAN :
       LET err == DeleteBucketErr(buckets, bucketName[c], fault) IN
       /\ disturbed' = [disturbed EXCEPT ![c] = @ \/ fault]
       /\ buckets' = IF err = NoErr THEN Drop(buckets, bucketName[c]) ELSE buckets
       /\ AfterDelete(c, DeleteBucketReturn(err))
  /\ UNCHANGED <<store, artifactVars, credSecrets, claim, s3Client,
                 bucketName, path, attempted, faults, edits>>

\* handleDeletion, lines 387-394: RemoveFinalizer and r.Update
RemoveFinalizer(c) ==
  /\ pc[c] = "removeFinalizer"
  /\ \E ok \in BOOLEAN :
       /\ ok => CanWrite(c)
       /\ LET obj == [claim[c] EXCEPT !.finalizers = @ \ {finalizerName}] IN
          store' = IF ok THEN Update(store, c, obj) ELSE store
       /\ Return(c, IF ok THEN "ok" ELSE "err")
  /\ attempted' = [attempted EXCEPT ![c] = @ /\ c \in DOMAIN store']
  /\ UNCHANGED <<artifactVars, credSecrets, buckets, bucketName, path, faults, edits>>

-----------------------------------------------------------------------------
(* Environment: the user, S3 clients and other tenants of the backend *)

\* the stored claim is written by someone other than the pass in flight
Touched(c) == [stale EXCEPT ![c] = pc[c] # "idle"]

\* the specs that differ from spec in exactly one field
\* the specs a user may change a claim to: those of UserSpecs and those with
\* another prefix
EditedSpecs == [bucketName : ExplicitNames, generateBucketName : Prefixes \cup {"web"},
                retainPolicy : Policies]

OneFieldEdits(spec) ==
  { e \in { DefaultSpec(u) : u \in EditedSpecs } :
      Cardinality({ f \in DOMAIN spec : e[f] # spec[f] }) = 1 }

\* kubectl apply of a spec edited in one field
EditSpec(c, spec) ==
  /\ c \in DOMAIN store
  /\ spec \in OneFieldEdits(store[c].spec)
  /\ edits < MaxEdits
  /\ edits' = edits + 1
  /\ store' = [store EXCEPT ![c].spec = spec]
  /\ stale' = Touched(c)
  /\ UNCHANGED <<artifactVars, credSecrets, buckets, pc, claim, s3Client, bucketName,
                 listResp, existing, outdated, path, result, attempted, delResult, disturbed, faults>>

\* kubectl apply of another spec.retainPolicy
EditPolicy(c, policy) ==
  /\ c \in DOMAIN store
  /\ EditSpec(c, [store[c].spec EXCEPT !.retainPolicy = policy])

\* kubectl delete: the deletion timestamp is set, or, with no finalizer, the
\* object is removed at once
RequestDeletion(c) ==
  /\ c \in DOMAIN store
  /\ ~store[c].deletionTimestamp
  /\ store' = IF store[c].finalizers = {} THEN Drop(store, c)
              ELSE [store EXCEPT ![c].deletionTimestamp = TRUE]
  /\ stale' = Touched(c)
  /\ attempted' = [attempted EXCEPT ![c] = @ /\ c \in DOMAIN store']
  /\ UNCHANGED <<artifactVars, credSecrets, buckets, pc, claim, s3Client, bucketName,
                 listResp, existing, outdated, path, result, delResult, disturbed, faults, edits>>

\* every name determineBucketName can resolve for a claim as first applied
BucketNames ==
  { determineBucketName(NewClaim(c, DefaultSpec(u)), r) :
      c \in Claims, u \in UserSpecs, r \in RandomReads(5) }

\* the bucket names the ConfigMap artifacts hand to applications
PublishedBuckets == { configMaps[n].data["BUCKET_NAME"] : n \in DOMAIN configMaps }

\* an application uploads n objects into an empty bucket it was handed
PutObjects(name, n) ==
  /\ name \in PublishedBuckets
  /\ name \in DOMAIN buckets
  /\ buckets[name].owner = "self"
  /\ buckets[name].objects = {}
  /\ buckets' = [buckets EXCEPT ![name].objects = 1..n]
  /\ disturbed' = [c \in Claims |->
                     disturbed[c] \/ (bucketName[c] = name /\
                        pc[c] \in {"deleteObject", "deleteBucket"})]
  /\ UNCHANGED <<store, artifactVars, credSecrets, pc, claim, s3Client,
                 bucketName, listResp, existing, outdated, stale, path, result, attempted, delResult,
                 faults, edits>>

\* another tenant of the backend takes a bucket name
ForeignCreateBucket(name) ==
  /\ name \notin DOMAIN buckets
  /\ buckets' = Put(buckets, name, [owner |-> "other", objects |-> {}])
  /\ UNCHANGED <<store, artifactVars, credSecrets, passVars, attempted, faults, edits>>

\* the s3-credentials secret is deleted
DeleteCredentials ==
  /\ credSecretName \in DOMAIN credSecrets
  /\ credSecrets' = Drop(credSecrets, credSecretName)
  /\ UNCHANGED <<store, artifactVars, buckets, passVars, attempted, faults, edits>>

\* the s3-credentials secret is created or rotated
SetCredentials(v) ==
  /\ credSecretName \in DOMAIN credSecrets => credSecrets[credSecretName] # CredData(v)
  /\ credSecrets' = Put(credSecrets, credSecretName, CredData(v))
  /\ UNCHANGED <<store, artifactVars, buckets, passVars, attempted, faults, edits>>

-----------------------------------------------------------------------------
(* Specifications *)

\* the steps of the steady-state path of a reconcile pass for claim c
SteadyPass(c) ==
  \/ Get(c)
  \/ AddFinalizer(c)
  \/ GetCredentials(c)
  \/ StatusError(c)
  \/ Annotate(c)
  \/ HeadBucket(c)
  \/ CreateBucket(c)
  \/ UpsertSecret(c)
  \/ WriteSecret(c)
  \/ UpsertConfigMap(c)
  \/ WriteConfigMap(c)
  \/ StatusBound(c)

\* the steps of the deletion path of a reconcile pass for claim c
DeletionPass(c) ==
  \/ DelGetCredentials(c)
  \/ ListObjects(c)
  \/ DeleteObject(c)
  \/ DeleteBucket(c)
  \/ RemoveFinalizer(c)

\* every step of a reconcile pass for claim c
Pass(c) == SteadyPass(c) \/ DeletionPass(c)

\* one claim has been applied and awaits its first pass
Init == InitWith({"a"})

\* the life of one claim: passes, the user's delete, uploads by the
\* application, another tenant taking a name
Next ==
  \/ \E c \in {"a"} : Pass(c)
  \/ \E c \in {"a"} : RequestDeletion(c)
  \/ \E name \in BucketNames, n \in ObjectKeys : PutObjects(name, n)
  \/ ForeignCreateBucket("fixed")

Spec == Init /\ [][Next]_vars

\* steady-state passes only: nothing but the controller acts
NextSteady == \E c \in {"a"} : SteadyPass(c)

SpecSteady == Init /\ [][NextSteady]_vars

\* steady-state passes and the user's edits of the claim while it lives
NextEdit ==
  \/ \E c \in {"a"} : SteadyPass(c)
  \/ \E c \in {"a"}, spec \in EditedSpecs : EditSpec(c, spec)

SpecEdit == Init /\ [][NextEdit]_vars

\* the finalizer removal whose r.Update the claim store accepts
RemoveFinalizerAccepted(c) == RemoveFinalizer(c) /\ c \notin DOMAIN store'

\* requests are delivered until a pass returns nil, each pass runs to its
\* end, and the claim store does not refuse the finalizer removal forever
Fairness ==
  /\ \A c \in {"a"} : WF_vars(Pass(c))
  /\ \A c \in {"a"} : SF_vars(RemoveFinalizerAccepted(c))

SpecFair == Init /\ [][Next]_vars /\ Fairness

\* two claims of one namespace have been applied and await their first pass
InitPair == InitWith(Claims)

\* steady-state passes of the two claims, interleaved
NextPair == \E c \in Claims : SteadyPass(c)

SpecPair == InitPair /\ [][NextPair]_vars

\* no pass has run yet
FreshPasses ==
  /\ pc = [c \in Claims |-> "idle"]
  /\ claim = [c \in Claims |-> ZeroClaim]
  /\ s3Client = [c \in Claims |-> ZeroClient]
  /\ bucketName = [c \in Claims |-> ""]
  /\ listResp = [c \in Claims |-> << >>]
  /\ existing = [c \in Claims |-> << >>]
  /\ outdated = [c \in Claims |-> FALSE]
  /\ stale = [c \in Claims |-> FALSE]
  /\ path = [c \in Claims |-> "none"]
  /\ result = [c \in Claims |-> "none"]
  /\ attempted = [c \in Claims |-> FALSE]
  /\ delResult = [c \in Claims |-> "none"]
  /\ disturbed = [c \in Claims |-> FALSE]
  /\ faults = 0
  /\ edits = 0

\* one claim has been applied, and the credential secret carries any
\* combination of its two optional fields
InitCred ==
  /\ store \in { [c \in {"a"} |-> NewClaim(c, DefaultSpec(u))] : u \in UserSpecs }
  /\ secrets = << >>
  /\ configMaps = << >>
  /\ credSecrets \in { [n \in {credSecretName} |-> CredDataWithFlags("1", u, i)] :
                          u \in FlagValues, i \in FlagValues }
  /\ buckets = << >>
  /\ FreshPasses

\* the life of one claim under each of these credential secrets
SpecCred == InitCred /\ [][Next]_vars

\* what an artifact made by someone else may hold: an outdated value of a key
\* the controller writes, and possibly a key it does not know
PriorPayloads ==
  { [k \in K |-> "stale"] : K \in {{"BUCKET_NAME"}, {"BUCKET_NAME", "EXTRA"}} }

\* the Secrets of the claim's namespace before its first pass: none, or one of
\* the artifact's name that a user created, without an owner
PriorSecrets(cl) ==
  {<< >>} \cup { [n \in {SecretName(cl)} |->
                   [type |-> "Opaque", owner |-> "", data |-> d]] :
                 d \in PriorPayloads }

\* the ConfigMaps of the claim's namespace before its first pass
PriorConfigMaps(cl) ==
  {<< >>} \cup { [n \in {ConfigMapName(cl)} |-> [owner |-> "", data |-> d]] :
                 d \in PriorPayloads }

\* a client other than the controller creates, replaces or deletes the Secret
\* that has the name of the claim's artifact
ClientSetsSecret(c) ==
  /\ c \in DOMAIN store
  /\ \E S \in PriorSecrets(store[c]) :
       /\ S # secrets
       /\ secrets' = S
  /\ outdated' = [d \in Claims |->
                    \/ outdated[d]
                    \/ pc[d] = "writeSecret" /\ SecretName(claim[d]) = SecretName(store[c])]
  /\ UNCHANGED <<store, configMaps, credSecrets, buckets, pc, claim, s3Client,
                 bucketName, listResp, existing, stale, path, result, attempted,
                 delResult, disturbed, faults, edits>>

\* a client other than the controller creates, replaces or deletes the
\* ConfigMap that has the name of the claim's artifact
ClientSetsConfigMap(c) ==
  /\ c \in DOMAIN store
  /\ \E M \in PriorConfigMaps(store[c]) :
       /\ M # configMaps
       /\ configMaps' = M
  /\ outdated' = [d \in Claims |->
                    \/ outdated[d]
                    \/ /\ pc[d] = "writeConfigMap"
                       /\ ConfigMapName(claim[d]) = ConfigMapName(store[c])]
  /\ UNCHANGED <<store, secrets, credSecrets, buckets, pc, claim, s3Client,
                 bucketName, listResp, existing, stale, path, result, attempted,
                 delResult, disturbed, faults, edits>>

\* one claim has been applied in a namespace that may already hold objects
\* with the names of its artifacts
InitArtifacts ==
  /\ store \in { [c \in {"a"} |-> NewClaim(c, DefaultSpec(u))] : u \in UserSpecs }
  /\ secrets \in PriorSecrets(NewClaim("a", ZeroSpec))
  /\ configMaps \in PriorConfigMaps(NewClaim("a", ZeroSpec))
  /\ credSecrets = [n \in {credSecretName} |-> CredData("1")]
  /\ buckets = << >>
  /\ FreshPasses

\* steady-state passes over these namespaces
SpecArtifacts == InitArtifacts /\ [][NextSteady]_vars

\* steady-state passes while other clients of the namespace write the objects
\* that have the names of the artifacts
NextContend ==
  \/ \E c \in {"a"} : SteadyPass(c)
  \/ \E c \in {"a"} : ClientSetsSecret(c)
  \/ \E c \in {"a"} : ClientSetsConfigMap(c)

SpecContend == InitArtifacts /\ [][NextContend]_vars

\* steady-state passes while the operator rotates, deletes and restores the
\* s3-credentials secret
NextRotate ==
  \/ \E c \in {"a"} : SteadyPass(c)
  \/ \E v \in CredVersions : SetCredentials(v)
  \/ DeleteCredentials

SpecRotate == Init /\ [][NextRotate]_vars

\* the same, with the work queue's contract: a request is delivered again
\* after a pass that returned an error, and each pass runs to its end
SpecConverge == Init /\ [][NextRotate]_vars /\ WF_vars(SteadyPass("a"))

\* the finalizer of another controller
ForeignFinalizer == "example.com/hold"

\* the finalizers a claim that is being deleted may carry: the engine's, or
\* only another controller's, which keeps the claim stored after the engine's
\* is gone
HeldBy == {{finalizerName}, {ForeignFinalizer}}

\* a claim whose deletion has been requested, as a pass may find it: with
\* finalizers fin, a retain policy, and a bucket name in its annotations, in
\* its status, in both or in neither
DeletionInput(name, fin, policy, ann, sn) ==
  LET cl == [NewClaim(name, [ZeroSpec EXCEPT !.retainPolicy = policy])
               EXCEPT !.finalizers = fin, !.deletionTimestamp = TRUE]
  IN  [cl EXCEPT !.annotations[annotationBucketName] = ann,
                 !.annotations[annotationRetainPolicy] = IF ann = "" THEN "" ELSE policy,
                 !.status = IF sn = "" THEN ZeroStatus ELSE BoundStatus(cl, sn)]

\* the bucket names such a claim may carry
RecordedNames == {"n1", "n2"}

\* one claim awaits its deletion pass; the backend holds the buckets it may
\* name, empty, with an object, or with more objects than one list response
\* carries
InitDeletion ==
  /\ store \in { [c \in {"a"} |-> DeletionInput(c, fin, policy, ann, sn)] :
                    fin \in HeldBy,
                    policy \in {RetainPolicyRetain, RetainPolicyDelete},
                    ann \in {"", "n1"}, sn \in {""} \cup RecordedNames }
  /\ secrets = << >>
  /\ configMaps = << >>
  /\ credSecrets = [n \in {credSecretName} |-> CredData("1")]
  /\ buckets \in { [b \in RecordedNames |-> [owner |-> "self", objects |-> O]] :
                      O \in {{}, {1}, ObjectKeys} }
  /\ FreshPasses

\* the deletion pass, and what a pass finds once the claim is gone
NextDeletion == \E c \in {"a"} : Get(c) \/ DeletionPass(c)

SpecDeletion == InitDeletion /\ [][NextDeletion]_vars

\* the specs of two claims that live side by side: an explicit name, which
\* both may ask for, or the generated fallback name, and either retain policy
PairSpecs == [bucketName : ExplicitNames, generateBucketName : {""},
              retainPolicy : {RetainPolicyRetain, RetainPolicyDelete}]

\* two claims of one namespace have been applied with these specs
InitPairLife ==
  /\ store \in { [c \in Claims |-> NewClaim(c, f[c])] : f \in [Claims -> PairSpecs] }
  /\ secrets = << >>
  /\ configMaps = << >>
  /\ credSecrets = [n \in {credSecretName} |-> CredData("1")]
  /\ buckets = << >>
  /\ FreshPasses

\* the lives of the two claims, interleaved: passes, the user's deletes, and
\* an application's upload of an object into the bucket of the explicit name
NextPairLife ==
  \/ \E c \in Claims : Pass(c)
  \/ \E c \in Claims : RequestDeletion(c)
  \/ \E name \in ExplicitNames \ {""} : PutObjects(name, 1)

SpecPairLife == InitPairLife /\ [][NextPairLife]_vars

\* one claim has been applied with either retain policy
InitRetain ==
  /\ store \in { [c \in {"a"} |-> NewClaim(c, u)] : u \in PairSpecs }
  /\ secrets = << >>
  /\ configMaps = << >>
  /\ credSecrets = [n \in {credSecretName} |-> CredData("1")]
  /\ buckets = << >>
  /\ FreshPasses

\* the life of one claim whose retain policy the user changes: passes, the
\* change, the user's delete, uploads by the application
NextRetain ==
  \/ \E c \in {"a"} : Pass(c)
  \/ \E c \in {"a"}, policy \in {RetainPolicyRetain, RetainPolicyDelete} :
       EditPolicy(c, policy)
  \/ \E c \in {"a"} : RequestDeletion(c)
  \/ \E name \in BucketNames, n \in ObjectKeys : PutObjects(name, n)

SpecRetain == InitRetain /\ [][NextRetain]_vars

\* a claim as a pass may find it: named name, living in ns, with spec u, and
\* with status.bucketName sn left by an earlier pass
ResolverInput(name, ns, u, sn) ==
  LET cl == [NewClaim(name, u) EXCEPT !.namespace = ns,
                                       !.finalizers = {finalizerName}]
  IN  IF sn = "" THEN cl
      ELSE [Annotated(cl, sn) EXCEPT !.status = BoundStatus(cl, sn)]

\* one claim, of any name, namespace, spec and earlier status, has been loaded
\* by a pass that is about to resolve its bucket name
InitName ==
  /\ store \in { [c \in {name} |-> ResolverInput(name, ns, DefaultSpec(u), sn)] :
                    name \in Claims, ns \in Namespaces, u \in UserSpecs,
                    sn \in PriorNames }
  /\ secrets = << >>
  /\ configMaps = << >>
  /\ credSecrets = [n \in {credSecretName} |-> CredData("1")]
  /\ buckets = << >>
  /\ pc = [c \in Claims |-> IF c \in DOMAIN store THEN "annotate" ELSE "idle"]
  /\ claim = [c \in Claims |-> IF c \in DOMAIN store THEN store[c] ELSE ZeroClaim]
  /\ s3Client = [c \in Claims |->
       IF c \in DOMAIN store
       THEN LET d == CredData("1") IN
            newS3Client(d.endpoint, d.region, d.accessKey, d.secretKey, TRUE, TRUE)
       ELSE ZeroClient]
  /\ bucketName = [c \in Claims |-> ""]
  /\ listResp = [c \in Claims |-> << >>]
  /\ existing = [c \in Claims |-> << >>]
  /\ outdated = [c \in Claims |-> FALSE]
  /\ stale = [c \in Claims |-> FALSE]
  /\ path = [c \in Claims |-> IF c \in DOMAIN store THEN "steady" ELSE "none"]
  /\ result = [c \in Claims |-> "none"]
  /\ attempted = [c \in Claims |-> FALSE]
  /\ delResult = [c \in Claims |-> "none"]
  /\ disturbed = [c \in Claims |-> FALSE]
  /\ faults = 0
  /\ edits = 0

\* the name resolver applied to the loaded claim
NextName == \E c \in Claims : DetermineBucketName(c)

SpecName == InitName /\ [][NextName]_vars

-----------------------------------------------------------------------------
(* Properties *)

\* the stored bucket-name annotation of claim c, "" when there is none
StoredAnnotation(c) ==
  IF c \in DOMAIN store THEN store[c].annotations[annotationBucketName] ELSE ""

\* the stored status.bucketName of claim c, "" when there is none
StoredStatusName(c) ==
  IF c \in DOMAIN store THEN store[c].status.bucketName ELSE ""

\* BUCKET_NAME of claim c's Secret and ConfigMap, "" when the artifact is absent
SecretBucketName(c) ==
  IF c \o "-bucket-secret" \in DOMAIN secrets
  THEN secrets[c \o "-bucket-secret"].data["BUCKET_NAME"] ELSE ""
ConfigMapBucketName(c) ==
  IF c \o "-bucket-config" \in DOMAIN configMaps
  THEN configMaps[c \o "-bucket-config"].data["BUCKET_NAME"] ELSE ""

\* C1: for a claim with empty spec.bucketName, once a pass has resolved a
\* generated name N and written it to the bucket-name annotation, every later
\* pass resolves N again, also when the earlier pass failed after the
\* annotation write and status.bucketName is still empty: the name-resolving
\* step of a pass that loaded annotation N resolves N.
C1_SuffixNeverRegenerated ==
  [][\A c \in Claims :
       ( /\ pc[c] = "annotate"
         /\ pc'[c] # "annotate"
         /\ claim[c].spec.bucketName = ""
         /\ claim[c].annotations[annotationBucketName] # "" )
       => bucketName'[c] = claim[c].annotations[annotationBucketName]]_vars

\* C2: running the steady-state reconcile again with nothing changed in
\* between resolves the same name, and leaves the bucket-name annotation,
\* status.bucketName and the BUCKET_NAME of both artifacts as the earlier pass
\* left them: no step changes one of them once an earlier pass has set it.
C2_RepeatedPassKeepsNames ==
  [][\A c \in Claims :
       /\ StoredAnnotation(c) # "" => StoredAnnotation(c)' = StoredAnnotation(c)
       /\ StoredStatusName(c) # "" => StoredStatusName(c)' = StoredStatusName(c)
       /\ SecretBucketName(c) # "" => SecretBucketName(c)' = SecretBucketName(c)
       /\ ConfigMapBucketName(c) # "" =>
            ConfigMapBucketName(c)' = ConfigMapBucketName(c)]_vars

\* C3 as stated: once status.bucketName is non-empty it never changes for the
\* lifetime of the claim, whatever passes run and whatever edits the user
\* makes to spec.bucketName or spec.generateBucketName.
C3_StatusNameNeverChanges ==
  [][\A c \in Claims :
       (StoredStatusName(c) # "" /\ c \in DOMAIN store')
       => StoredStatusName(c)' = StoredStatusName(c)]_vars

\* C3 amended: once status.bucketName is non-empty, the only step that changes
\* it is the final status write of a pass that loaded a non-empty
\* spec.bucketName, which sets it to that explicit name; no other step of a
\* pass, successful or failed, and no edit of the spec changes or clears it.
C3_StatusNameChangesOnlyToExplicit ==
  [][\A c \in Claims :
       ( /\ StoredStatusName(c) # ""
         /\ c \in DOMAIN store'
         /\ StoredStatusName(c)' # StoredStatusName(c) )
       => /\ pc[c] = "statusBound"
          /\ claim[c].spec.bucketName # ""
          /\ StoredStatusName(c)' = claim[c].spec.bucketName]_vars

\* a pass that loaded the claim after its prefix "app" was edited away has
\* resolved the name generated under that prefix and is about to write it
C3_Witness ==
  \E c \in Claims :
    /\ pc[c] = "statusBound"
    /\ claim[c].spec.bucketName = ""
    /\ claim[c].spec.generateBucketName = ""
    /\ claim[c].status.bucketName \in
         { "app-" \o generateRandomString(r) : r \in RandomReads(5) }
    /\ bucketName[c] = claim[c].status.bucketName

\* the stored claim c carries the finalizer token
HasFinalizer(st, c) == c \in DOMAIN st /\ finalizerName \in st[c].finalizers

\* C4: a stored claim for which a bucket probe or create has been issued
\* carries the finalizer (a claim whose deletion sequence completed is no
\* longer stored); the finalizer is removed only by the finalizer-removal step
\* of a pass that loaded the claim with the deletion flag set; and when
\* persisting the newly attached finalizer fails, the pass ends there with an
\* error, the backend and both artifacts untouched.
C4_FinalizerGuardsBucket ==
  /\ [](\A c \in Claims :
          (attempted[c] /\ c \in DOMAIN store) => HasFinalizer(store, c))
  /\ [](\A c \in Claims :
          pc[c] \in {"getCredentials", "annotate", "headBucket", "createBucket",
                     "upsertSecret", "writeSecret", "upsertConfigMap",
                     "writeConfigMap", "statusBound"}
          => finalizerName \in claim[c].finalizers)
  /\ [][\A c \in Claims :
          (HasFinalizer(store, c) /\ ~HasFinalizer(store', c))
          => (pc[c] = "removeFinalizer" /\ claim[c].deletionTimestamp)]_vars
  /\ [][\A c \in Claims :
          (pc[c] = "addFinalizer" /\ pc'[c] # "addFinalizer" /\ ~HasFinalizer(store', c))
          => /\ pc'[c] = "idle"
             /\ result'[c] = "err"
             /\ UNCHANGED <<buckets, secrets, configMaps>>]_vars

\* a bucket was created for a stored claim, which carries the finalizer
C4_Witness ==
  \E c \in Claims :
    /\ attempted[c]
    /\ HasFinalizer(store, c)
    /\ bucketName[c] \in DOMAIN buckets
    /\ buckets[bucketName[c]].owner = "self"

\* C5 as stated: deletion of a claim whose retainPolicy is Delete always
\* removes the backend bucket before the finalizer is cleared: when the
\* deletion pass removes the finalizer, the claim's bucket no longer exists.
C5_DeleteAlwaysRemovesBucket ==
  [][\A c \in Claims :
       ( /\ pc[c] = "removeFinalizer"
         /\ claim[c].spec.retainPolicy = RetainPolicyDelete
         /\ HasFinalizer(store, c)
         /\ ~HasFinalizer(store', c) )
       => bucketName[c] \notin DOMAIN buckets']_vars

\* C5 amended: in the deletion pass of a claim whose retainPolicy is Delete,
\* whenever deleteBucket returns success the bucket and its objects are gone
\* at that moment, with the finalizer still on the claim and its removal the
\* next step; and when the finalizer is then removed no bucket of that name
\* owned by the controller's account exists.
C5_SuccessfulDeleteRemovesBucketFirst ==
  /\ [][\A c \in Claims :
          (delResult[c] # "ok" /\ delResult'[c] = "ok")
          => /\ claim[c].spec.retainPolicy = RetainPolicyDelete
             /\ bucketName[c] \notin DOMAIN buckets'
             /\ HasFinalizer(store', c)
             /\ pc'[c] = "removeFinalizer"]_vars
  /\ [][\A c \in Claims :
          ( /\ pc[c] = "removeFinalizer"
            /\ delResult[c] = "ok"
            /\ HasFinalizer(store, c)
            /\ ~HasFinalizer(store', c) )
          => \/ bucketName[c] \notin DOMAIN buckets'
             \/ buckets'[bucketName[c]].owner # "self"]_vars

\* deleteBucket returned success for the bucket an earlier pass had created,
\* and the finalizer is about to be removed
C5_Witness ==
  \E c \in Claims :
    /\ pc[c] = "removeFinalizer"
    /\ delResult[c] = "ok"
    /\ claim[c].spec.retainPolicy = RetainPolicyDelete
    /\ attempted[c]
    /\ bucketName[c] # ""
    /\ bucketName[c] \notin DOMAIN buckets

\* the positions of a pass at which it is about to make a round trip of the
\* bucket deletion (credential fetch, list, object delete, bucket delete)
DeleteSteps == {"delGetCredentials", "listObjects", "deleteObject", "deleteBucket"}

\* C6: the deletion pass of a claim whose retainPolicy is Retain (the default
\* when unset) issues no backend call: it never stands at a step of the
\* bucket deletion, it goes from loading the claim straight to the finalizer
\* removal, none of its steps changes a bucket or its objects, and the
\* finalizer removal, when the store accepts the write, clears the finalizer.
C6_RetainLeavesBucket ==
  /\ [](\A c \in Claims :
          pc[c] \in DeleteSteps => claim[c].spec.retainPolicy = RetainPolicyDelete)
  /\ [][\A c \in Claims :
          ( /\ pc[c] = "idle" /\ pc'[c] # "idle"
            /\ claim'[c].deletionTimestamp
            /\ claim'[c].spec.retainPolicy # RetainPolicyDelete )
          => (pc'[c] = "removeFinalizer" /\ UNCHANGED buckets)]_vars
  /\ [][\A c \in Claims :
          ( /\ pc[c] = "removeFinalizer" /\ pc'[c] = "idle"
            /\ claim[c].spec.retainPolicy # RetainPolicyDelete )
          => /\ UNCHANGED buckets
             /\ result'[c] = "ok" => ~HasFinalizer(store', c)
             /\ result'[c] = "err" => UNCHANGED store]_vars

\* the deletion pass of a Retain claim has cleared the finalizer, and the
\* bucket the claim was bound to still exists with the objects uploaded to it
C6_Witness ==
  \E c \in Claims :
    /\ path[c] = "deletion"
    /\ pc[c] = "idle"
    /\ result[c] = "ok"
    /\ c \notin DOMAIN store
    /\ bucketName[c] = ""
    /\ \E n \in DOMAIN buckets : buckets[n].owner = "self" /\ buckets[n].objects # {}

\* C7: a claim is always removable. No step of the bucket deletion
\* (credential fetch, list, object delete, bucket delete), whatever it is
\* answered, ends the pass or makes it return an error: the pass goes on
\* towards the finalizer removal; the pass returns an error only when the
\* claim store refused the finalizer write; and once the deletion flag is set
\* on a claim that carries the finalizer, with requests re-delivered and the
\* store eventually accepting the write, the finalizer is eventually removed
\* (the store then drops the claim).
C7_AlwaysRemovable ==
  /\ [][\A c \in Claims :
          (pc[c] \in DeleteSteps /\ pc'[c] # pc[c])
          => /\ pc'[c] \in DeleteSteps \cup {"removeFinalizer"}
             /\ result'[c] = result[c]]_vars
  /\ [][\A c \in Claims :
          (pc[c] = "removeFinalizer" /\ pc'[c] = "idle" /\ result'[c] = "err")
          => (UNCHANGED store /\ HasFinalizer(store, c))]_vars
  /\ \A c \in Claims :
       (HasFinalizer(store, c) /\ store[c].deletionTimestamp)
         ~> (c \notin DOMAIN store)

\* the finalizer was removed and the claim dropped although the bucket the
\* deletion pass was to delete is still in the backend
C7_Witness ==
  \E c \in Claims :
    /\ path[c] = "deletion"
    /\ pc[c] = "idle"
    /\ result[c] = "ok"
    /\ c \notin DOMAIN store
    /\ bucketName[c] \in DOMAIN buckets
    /\ buckets[bucketName[c]].owner = "self"

\* C8: when the first pass for a new claim returns success (the credential
\* secret was there, every store write was accepted, ensureBucket succeeded),
\* the stored status is phase Bound with bucketName the name resolved in that
\* pass (one the resolver yields for the claim's spec with no prior status),
\* secretRef {claim}-bucket-secret and configMapRef {claim}-bucket-config, the
\* bucket exists in the backend, and both artifacts exist with BUCKET_NAME
\* equal to status.bucketName.
C8_NewClaimEndsBound ==
  \A c \in Claims :
    (path[c] = "new" /\ pc[c] = "idle" /\ result[c] = "ok")
    => /\ c \in DOMAIN store
       /\ store[c].status.phase = "Bound"
       /\ store[c].status.bucketName = bucketName[c]
       /\ bucketName[c] \in
            { determineBucketName(NewClaim(c, store[c].spec), r) : r \in RandomReads(5) }
       /\ store[c].status.secretRef = c \o "-bucket-secret"
       /\ store[c].status.configMapRef = c \o "-bucket-config"
       /\ bucketName[c] \in DOMAIN buckets
       /\ SecretBucketName(c) = store[c].status.bucketName
       /\ ConfigMapBucketName(c) = store[c].status.bucketName

\* the first pass for claim a with generateBucketName "app" has ended Bound
\* under a name app-xxxxx
C8_Witness ==
  /\ path["a"] = "new" /\ pc["a"] = "idle" /\ result["a"] = "ok"
  /\ "a" \in DOMAIN store
  /\ store["a"].spec.generateBucketName = "app"
  /\ store["a"].status.phase = "Bound"
  /\ store["a"].status.bucketName \in
       { "app-" \o generateRandomString(r) : r \in RandomReads(5) }
  /\ "a-bucket-secret" \in DOMAIN secrets
  /\ "a-bucket-config" \in DOMAIN configMaps

\* C9: ensureBucket is idempotent. For every bucket in the backend, a create
\* call is rejected as already owned / already existing and ensureBucket turns
\* that into success, and a probe that reports the bucket makes it return
\* success at once; a pass's ensureBucket steps for a name that already
\* exists leave the backend unchanged and go on to the artifacts, failing only
\* when a fault is injected into the create call; hence a pass over a bound
\* claim that returns success leaves phase Bound and the bucket in place.
C9_EnsureBucketIdempotent ==
  /\ [](\A name \in DOMAIN buckets :
          /\ EnsureAfterCreate(CreateBucketErr(buckets, name, FALSE)) = NoErr
          /\ buckets[name].owner = "self"
               => EnsureAfterHead(HeadBucketErr(buckets, name, FALSE)) = "return")
  /\ [][\A c \in Claims :
          ( /\ pc[c] \in {"headBucket", "createBucket"}
            /\ pc'[c] # pc[c]
            /\ bucketName[c] \in DOMAIN buckets )
          => /\ UNCHANGED buckets
             /\ pc'[c] \in {"createBucket", "upsertSecret", "statusError"}
             /\ pc'[c] = "statusError"
                  => (pc[c] = "createBucket" /\ faults' = faults + 1)]_vars
  /\ [](\A c \in Claims :
          (path[c] = "steady" /\ pc[c] = "idle" /\ result[c] = "ok")
          => /\ c \in DOMAIN store
             /\ store[c].status.phase = "Bound"
             /\ bucketName[c] \in DOMAIN buckets)

\* a later pass over a bound claim has got through ensureBucket with the
\* bucket of the earlier pass in place
C9_Witness ==
  \E c \in Claims :
    /\ pc[c] = "upsertSecret"
    /\ path[c] = "steady"
    /\ claim[c].status.phase = "Bound"
    /\ bucketName[c] \in DOMAIN buckets
    /\ buckets[bucketName[c]].owner = "self"

\* C10: deleteBucket on an existing bucket of the controller's account that
\* holds N objects, N >= 0 and also N larger than one list response carries,
\* with no backend failure and nobody writing to the bucket meanwhile, ends
\* with no object left and the bucket gone: when deleteBucket has returned and
\* was not disturbed, the backend holds no such bucket of the account.
C10_DeleteBucketEmptiesAndDeletes ==
  \A c \in Claims :
    (pc[c] = "removeFinalizer" /\ delResult[c] # "none" /\ ~disturbed[c])
    => \/ bucketName[c] \notin DOMAIN buckets
       \/ buckets[bucketName[c]].owner # "self"

\* C11: deleteBucket is an idempotent delete: when it is called on a bucket
\* that the backend does not hold, so that its first call, the object listing,
\* is answered with NoSuchBucket, and no failure is injected, it returns
\* success and leaves the backend as it was.
C11_DeleteAbsentBucketSucceeds ==
  [][\A c \in Claims :
       (/\ pc[c] = "listObjects"
        /\ pc'[c] # "listObjects"
        /\ bucketName[c] \notin DOMAIN buckets
        /\ ~disturbed'[c])
       => (delResult'[c] = "ok" /\ buckets' = buckets)]_vars

\* C12: a name collision is an error: a claim whose resolved bucket name
\* already exists as the bucket of another claim gets an error and phase Error
\* and is never Bound, so no two claims are ever Bound to the same bucket name.
C12_CollisionIsAnError ==
  \A a \in DOMAIN store, b \in DOMAIN store :
    (/\ a # b
     /\ store[a].status.phase = "Bound"
     /\ store[b].status.phase = "Bound")
    => store[a].status.bucketName # store[b].status.bucketName

\* the claim a pass has loaded and resolved a bucket name for
Resolved(c) == pc[c] = "annotate" /\ bucketName[c] # ""

\* C13: for every claim with non-empty spec.bucketName = X the resolved bucket
\* name is exactly X, whatever the namespace, the claim name,
\* spec.generateBucketName and the prior status.bucketName are.
C13_ExplicitNameWins ==
  \A c \in Claims :
    (Resolved(c) /\ claim[c].spec.bucketName # "")
    => bucketName[c] = claim[c].spec.bucketName

\* an explicit name has been resolved for a claim of another namespace that
\* also has a prefix and a different name in its status
C13_Witness ==
  \E c \in Claims :
    /\ Resolved(c)
    /\ claim[c].spec.bucketName = "fixed"
    /\ claim[c].spec.generateBucketName # ""
    /\ claim[c].status.bucketName \notin {"", "fixed"}
    /\ claim[c].namespace # Namespace
    /\ bucketName[c] = "fixed"

\* the 36 symbols a-z0-9
LowerAlnum ==
  {"a", "b", "c", "d", "e", "f", "g", "h", "i", "j", "k", "l", "m", "n", "o", "p",
   "q", "r", "s", "t", "u", "v", "w", "x", "y", "z",
   "0", "1", "2", "3", "4", "5", "6", "7", "8", "9"}

\* name is the prefix, a hyphen and five symbols of a-z0-9
PrefixedName(name, prefix) ==
  LET n == Len(prefix) IN
  /\ Len(name) = n + 1 + 5
  /\ SubSeq(name, 1, n) = prefix
  /\ SubSeq(name, n + 1, n + 1) = "-"
  /\ \A i \in 1..5 : SubSeq(name, n + 1 + i, n + 1 + i) \in LowerAlnum

\* C14: for every claim with empty spec.bucketName, empty status.bucketName
\* and spec.generateBucketName = p, the resolved name is p, a hyphen and a
\* suffix of exactly 5 characters of the alphabet a-z0-9, whatever value from
\* 0 to 255 each random byte has.
C14_GeneratedNameShape ==
  \A c \in Claims :
    (/\ Resolved(c)
     /\ claim[c].spec.bucketName = ""
     /\ claim[c].status.bucketName = ""
     /\ claim[c].spec.generateBucketName # "")
    => PrefixedName(bucketName[c], claim[c].spec.generateBucketName)

\* a prefixed name has been generated from the bytes 255, 0, 1, 2, 3
C14_Witness ==
  \E c \in Claims :
    /\ Resolved(c)
    /\ claim[c].spec.bucketName = ""
    /\ claim[c].status.bucketName = ""
    /\ claim[c].spec.generateBucketName = "app"
    /\ bucketName[c] = "app-dabcd"

\* the steps of a steady-state pass that follow the name resolution
AfterResolution ==
  {"headBucket", "createBucket", "upsertSecret", "writeSecret", "upsertConfigMap",
   "writeConfigMap", "statusBound"}

\* C15: for a claim without spec.bucketName, once a generated name has been
\* persisted to status.bucketName, every later pass resolves that same name,
\* also when spec.generateBucketName has been changed to another prefix since.
C15_PersistedNameSurvivesPrefixChange ==
  \A c \in Claims :
    (/\ pc[c] \in AfterResolution
     /\ claim[c].spec.bucketName = ""
     /\ claim[c].status.bucketName # "")
    => bucketName[c] = claim[c].status.bucketName

\* a pass has resolved the name generated under the prefix "app" for a claim
\* whose prefix is "web" by now
C15_Witness ==
  \E c \in Claims :
    /\ pc[c] \in AfterResolution
    /\ claim[c].spec.bucketName = ""
    /\ claim[c].spec.generateBucketName = "web"
    /\ PrefixedName(claim[c].status.bucketName, "app")
    /\ bucketName[c] = claim[c].status.bucketName

\* C16: name resolution follows the precedence, first match wins, for every
\* combination of empty and non-empty inputs: spec.bucketName, else
\* status.bucketName, else spec.generateBucketName with a fresh suffix, else
\* {namespace}-{claimName} with a fresh suffix; the first two cases return the
\* input itself, with no suffix drawn.
C16_ResolutionPrecedence ==
  \A c \in Claims :
    Resolved(c) =>
      LET cl == claim[c] IN
      IF cl.spec.bucketName # "" THEN bucketName[c] = cl.spec.bucketName
      ELSE IF cl.status.bucketName # "" THEN bucketName[c] = cl.status.bucketName
      ELSE IF cl.spec.generateBucketName # ""
           THEN PrefixedName(bucketName[c], cl.spec.generateBucketName)
      ELSE PrefixedName(bucketName[c], cl.namespace \o "-" \o cl.name)

\* the fallback name has been resolved for claim b of namespace prod, which
\* has no explicit name, no prefix and no earlier status
C16_Witness ==
  \E c \in Claims :
    /\ Resolved(c)
    /\ claim[c].spec.bucketName = ""
    /\ claim[c].status.bucketName = ""
    /\ claim[c].spec.generateBucketName = ""
    /\ PrefixedName(bucketName[c], "prod-b")

\* the certificate-verification-skip setting the credential secret asks for:
\* true when the field says so, false when it says false or is absent
SkipVerifyAskedFor == credSecrets[credSecretName].insecureSkipVerify = "true"

\* C17: the backend client of a pass takes its TLS-enabled flag and its
\* certificate-verification-skip flag from the credential secret's useSSL and
\* insecureSkipVerify fields (defaults true and false), on the reconcile and
\* on the deletion path. The client record carries the verification setting
\* (the TLS transport's InsecureSkipVerify), and that is what is compared:
\* every client a pass has built skips verification exactly when the secret
\* says so.
C17_ClientFlagsFromSecret ==
  \A c \in Claims :
    s3Client[c] # ZeroClient
    => s3Client[c].insecureSkipVerify = SkipVerifyAskedFor

\* C18, as claimed: after every successful upsert the stored artifact carries
\* the ownership relation to the claim, whether the artifact was created or an
\* artifact of that name, with or without an owner, was updated (so that the
\* cascade delete removes both artifacts with the claim): a pass that is past
\* upsertSecret finds the Secret owned by its claim, and one that is past
\* upsertConfigMap finds the ConfigMap owned by it too.
C18_UpsertAlwaysStampsOwner ==
  \A c \in Claims :
    /\ pc[c] \in {"upsertConfigMap", "writeConfigMap", "statusBound"}
        => /\ SecretName(claim[c]) \in DOMAIN secrets
           /\ secrets[SecretName(claim[c])].owner = c
    /\ pc[c] = "statusBound"
        => /\ ConfigMapName(claim[c]) \in DOMAIN configMaps
           /\ configMaps[ConfigMapName(claim[c])].owner = c

\* the owner an upsert of the artifact named n for claim c leaves in store st
\* when it found store old: the claim when it created the artifact, the owner
\* the artifact had when it updated it
OwnerAfterUpsert(old, st, n, c) ==
  /\ n \in DOMAIN st
  /\ st[n].owner = IF n \in DOMAIN old THEN old[n].owner ELSE c

\* C18, amended: a successful upsert that creates the credentials or the
\* configuration artifact stamps the claim as its owner; one that updates an
\* artifact that already existed leaves its owner as it was, so an artifact
\* the controller created stays owned by the claim and one that was made
\* without an owner stays without.
C18_UpsertStampsOwnerOnCreate ==
  [][\A c \in Claims :
       /\ (pc[c] = "writeSecret" /\ pc'[c] = "upsertConfigMap")
           => OwnerAfterUpsert(secrets, secrets', SecretName(claim[c]), c)
       /\ (pc[c] = "writeConfigMap" /\ pc'[c] = "statusBound")
           => OwnerAfterUpsert(configMaps, configMaps', ConfigMapName(claim[c]), c)]_vars

\* a pass has created the Secret, owned by its claim, and has updated a
\* ConfigMap that existed without an owner, which still has none
C18_Witness ==
  \E c \in Claims :
    /\ pc[c] = "statusBound"
    /\ secrets[SecretName(claim[c])].owner = c
    /\ configMaps[ConfigMapName(claim[c])].owner = ""
    /\ configMaps[ConfigMapName(claim[c])].data["BUCKET_NAME"] = bucketName[c]

\* C19: upsert is a self-correcting full overwrite: after a successful upsert
\* the stored artifact's payload (its key-value pairs and, for the Secret, its
\* type) equals the desired payload whatever the artifact held before: absent,
\* outdated values, or keys added out of band. A pass that is past
\* upsertSecret finds the Secret holding exactly the desired pairs, and one
\* that is past upsertConfigMap finds the ConfigMap holding exactly its own.
C19_UpsertIsFullOverwrite ==
  \A c \in Claims :
    /\ pc[c] \in {"upsertConfigMap", "writeConfigMap", "statusBound"}
        => LET s == DesiredSecret(claim[c], s3Client[c], bucketName[c]) IN
           /\ s.name \in DOMAIN secrets
           /\ secrets[s.name].type = s.type
           /\ secrets[s.name].data = s.stringData
    /\ pc[c] = "statusBound"
        => LET m == DesiredConfigMap(claim[c], s3Client[c], bucketName[c]) IN
           /\ m.name \in DOMAIN configMaps
           /\ configMaps[m.name].data = m.data

\* what a reader of a Bound claim relies on: both artifacts exist under their
\* names and hand out status.bucketName, the status refers to them, and the
\* backend holds the bucket
Ready(c) ==
  LET cl == store[c] IN
  /\ SecretName(cl) \in DOMAIN secrets
  /\ secrets[SecretName(cl)].data["BUCKET_NAME"] = cl.status.bucketName
  /\ ConfigMapName(cl) \in DOMAIN configMaps
  /\ configMaps[ConfigMapName(cl)].data["BUCKET_NAME"] = cl.status.bucketName
  /\ cl.status.secretRef = SecretName(cl)
  /\ cl.status.configMapRef = ConfigMapName(cl)
  /\ cl.status.bucketName \in DOMAIN buckets

\* C20: in every reachable state in which a claim's persisted phase is Bound
\* (its spec is never edited and nobody deletes artifacts or bucket out of
\* band), the Secret and the ConfigMap of the claim exist with BUCKET_NAME
\* equal to status.bucketName, status.secretRef and status.configMapRef name
\* them, and the bucket exists in the backend. Stated here for the claims
\* whose deletion has not been requested only, which the claim as worded
\* implies: a claim that is being deleted keeps phase Bound while its own
\* deletion pass removes its bucket, and that is left out of account.
C20_BoundMeansReady ==
  \A c \in DOMAIN store :
    (store[c].status.phase = "Bound" /\ ~store[c].deletionTimestamp) => Ready(c)

\* the client holds the four values of the credential record d
ClientFrom(client, d) ==
  /\ client.endpoint = d.endpoint
  /\ client.region = d.region
  /\ client.accessKey = d.accessKey
  /\ client.secretKey = d.secretKey

\* C21: credentials are read anew in every pass and never cached: the client
\* a pass builds holds the credential secret's values as they are when the
\* pass reads them, the pass keeps that client to its end, and the Secret and
\* the ConfigMap it upserts carry those values; so the first pass that reads
\* the secret after a rotation writes the new values into both artifacts.
C21_CredentialsReadEveryPass ==
  [][\A c \in Claims :
       /\ (pc[c] = "getCredentials" /\ pc'[c] = "annotate")
           => ClientFrom(s3Client'[c], credSecrets[credSecretName])
       /\ (pc[c] \in AfterResolution \cup {"annotate"} /\ pc'[c] # "idle")
           => s3Client'[c] = s3Client[c]
       /\ (pc[c] = "writeSecret" /\ pc'[c] = "upsertConfigMap")
           => LET d == secrets'[SecretName(claim[c])].data IN
              /\ d["AWS_ACCESS_KEY_ID"] = s3Client[c].accessKey
              /\ d["AWS_SECRET_ACCESS_KEY"] = s3Client[c].secretKey
              /\ d["BUCKET_HOST"] = s3Client[c].endpoint
              /\ d["BUCKET_REGION"] = s3Client[c].region
       /\ (pc[c] = "writeConfigMap" /\ pc'[c] = "statusBound")
           => LET d == configMaps'[ConfigMapName(claim[c])].data IN
              /\ d["BUCKET_HOST"] = s3Client[c].endpoint
              /\ d["BUCKET_REGION"] = s3Client[c].region]_vars

\* the secret has been rotated, a pass that read it since has returned nil,
\* and the Secret artifact holds the rotated keys
C21_Witness ==
  \E c \in DOMAIN store :
    /\ pc[c] = "idle"
    /\ result[c] = "ok"
    /\ path[c] = "steady"
    /\ store[c].status.phase = "Bound"
    /\ credSecretName \in DOMAIN credSecrets
    /\ credSecrets[credSecretName] = CredData("2")
    /\ secrets[SecretName(store[c])].data["AWS_ACCESS_KEY_ID"] = CredData("2").accessKey
    /\ secrets[SecretName(store[c])].data["AWS_SECRET_ACCESS_KEY"] = CredData("2").secretKey

\* the steps of a steady-state pass, in the order of the code
StepRank ==
  [k \in {"addFinalizer", "getCredentials", "annotate", "headBucket", "createBucket",
          "upsertSecret", "writeSecret", "upsertConfigMap", "writeConfigMap",
          "statusBound"} |->
     CASE k = "addFinalizer"    -> 1
       [] k = "getCredentials"  -> 2
       [] k = "annotate"        -> 3
       [] k = "headBucket"      -> 4
       [] k = "createBucket"    -> 5
       [] k = "upsertSecret"    -> 6
       [] k = "writeSecret"     -> 7
       [] k = "upsertConfigMap" -> 8
       [] k = "writeConfigMap"  -> 9
       [] k = "statusBound"     -> 10]

\* the pass for c has got beyond step k
Beyond(c, k) == pc[c] \in DOMAIN StepRank /\ StepRank[pc[c]] > StepRank[k]

\* the pass for c has not got beyond step k
NotBeyond(c, k) == pc[c] \in DOMAIN StepRank /\ StepRank[pc[c]] <= StepRank[k]

\* C22: within one pass the effects occur in a fixed order and a failure
\* prevents every later step: a pass that is beyond a step has that step's
\* effect in place (finalizer persisted, then the name in the annotations,
\* then the bucket ensured, then the Secret, then the ConfigMap), and the
\* first pass of a claim, which finds none of the effects in place, has made
\* no backend call before the annotation write, upserted no Secret before
\* ensureBucket returned, no ConfigMap before the Secret, and written no
\* Bound status before its last step.
C22_EffectsInOrder ==
  \A c \in Claims :
    /\ Beyond(c, "addFinalizer")
        => (c \in DOMAIN store /\ HasFinalizer(store, c))
    /\ Beyond(c, "annotate")
        => store[c].annotations[annotationBucketName] = bucketName[c]
    /\ Beyond(c, "createBucket")
        => bucketName[c] \in DOMAIN buckets
    /\ Beyond(c, "writeSecret")
        => /\ SecretName(claim[c]) \in DOMAIN secrets
           /\ secrets[SecretName(claim[c])].data["BUCKET_NAME"] = bucketName[c]
    /\ Beyond(c, "writeConfigMap")
        => /\ ConfigMapName(claim[c]) \in DOMAIN configMaps
           /\ configMaps[ConfigMapName(claim[c])].data["BUCKET_NAME"] = bucketName[c]
    /\ (path[c] = "new" /\ NotBeyond(c, "addFinalizer"))
        => (c \in DOMAIN store => ~HasFinalizer(store, c))
    /\ (path[c] = "new" /\ NotBeyond(c, "annotate"))
        => (/\ ~attempted[c]
            /\ c \in DOMAIN store => store[c].annotations = NoAnnotations)
    /\ (path[c] = "new" /\ NotBeyond(c, "writeSecret"))
        => SecretName(claim[c]) \notin DOMAIN secrets
    /\ (path[c] = "new" /\ NotBeyond(c, "writeConfigMap"))
        => ConfigMapName(claim[c]) \notin DOMAIN configMaps
    /\ (path[c] = "new" /\ NotBeyond(c, "statusBound"))
        => (c \in DOMAIN store => store[c].status.phase # "Bound")

\* a first pass has every effect but the last in place and is about to
\* write the Bound status
C22_Witness ==
  \E c \in DOMAIN store :
    /\ path[c] = "new"
    /\ pc[c] = "statusBound"
    /\ HasFinalizer(store, c)
    /\ store[c].annotations[annotationBucketName] = bucketName[c]
    /\ bucketName[c] \in DOMAIN buckets
    /\ SecretName(claim[c]) \in DOMAIN secrets
    /\ ConfigMapName(claim[c]) \in DOMAIN configMaps
    /\ store[c].status.phase # "Bound"

\* the pass for c is about to write phase Error because the credential secret
\* could not be loaded: it has built no client
CredentialsFailed(c) == pc[c] = "statusError" /\ s3Client[c] = ZeroClient

\* a step of the pass for c that touches neither the backend nor the artifacts
\* nor the stored claim's metadata and spec
NoProvisioning(c) ==
  /\ UNCHANGED <<buckets, secrets, configMaps, attempted>>
  /\ c \in DOMAIN store =>
       /\ c \in DOMAIN store'
       /\ store'[c].annotations = store[c].annotations
       /\ store'[c].finalizers = store[c].finalizers
       /\ store'[c].spec = store[c].spec

\* C23, as claimed: when the credential secret cannot be loaded in a
\* steady-state pass, the pass returns the error and the claim's persisted
\* phase is Error afterwards, with no backend call, no annotation write and
\* no artifact upsert.
C23_CredentialFailureSetsError ==
  [][\A c \in Claims :
       /\ (/\ pc[c] = "getCredentials"
           /\ pc'[c] # pc[c]
           /\ credSecretName \notin DOMAIN credSecrets)
           => pc'[c] = "statusError"
       /\ (pc[c] = "getCredentials" /\ pc'[c] \notin {"getCredentials", "annotate"})
           => (pc'[c] = "statusError" /\ NoProvisioning(c))
       /\ (CredentialsFailed(c) /\ pc'[c] # pc[c])
           => /\ pc'[c] = "idle"
              /\ result'[c] = "err"
              /\ NoProvisioning(c)
              /\ c \in DOMAIN store' => store'[c].status.phase = "Error"]_vars

\* C23, amended: when the credential secret cannot be loaded in a
\* steady-state pass, the pass issues one status write that sets phase Error
\* and nothing else, ignores the outcome of that write, and returns the
\* error: afterwards the stored claim is as before or differs in phase Error
\* alone. The pass makes no backend call, writes no annotation and upserts no
\* artifact.
C23_CredentialFailureTriesError ==
  [][\A c \in Claims :
       /\ (/\ pc[c] = "getCredentials"
           /\ pc'[c] # pc[c]
           /\ credSecretName \notin DOMAIN credSecrets)
           => pc'[c] = "statusError"
       /\ (pc[c] = "getCredentials" /\ pc'[c] \notin {"getCredentials", "annotate"})
           => /\ pc'[c] = "statusError"
              /\ claim'[c] = [claim[c] EXCEPT !.status.phase = "Error"]
              /\ store' = store
              /\ NoProvisioning(c)
       /\ (CredentialsFailed(c) /\ pc'[c] # pc[c])
           => /\ pc'[c] = "idle"
              /\ result'[c] = "err"
              /\ NoProvisioning(c)
              /\ \/ store' = store
                 \/ store' = [store EXCEPT ![c].status.phase = "Error"]]_vars

\* the first pass of a claim found no credential secret and has returned the
\* error; phase Error is persisted and nothing was provisioned
C23_Witness ==
  \E c \in DOMAIN store :
    /\ pc[c] = "idle"
    /\ result[c] = "err"
    /\ credSecretName \notin DOMAIN credSecrets
    /\ faults = 0
    /\ store[c].status.phase = "Error"
    /\ store[c].annotations = NoAnnotations
    /\ ~attempted[c]
    /\ buckets = << >>
    /\ secrets = << >>
    /\ configMaps = << >>

\* the pass for c is about to write phase Error because ensureBucket failed:
\* it has a client, and the only failure after that which leads here is
\* ensureBucket's
EnsureFailed(c) == pc[c] = "statusError" /\ s3Client[c] # ZeroClient

\* C24, as claimed: when ensureBucket fails in a steady-state pass, the pass
\* returns the error, the claim's persisted phase is Error afterwards, and
\* neither artifact is created or updated in that pass.
C24_EnsureFailureSetsError ==
  [][\A c \in Claims :
       /\ (/\ pc[c] = "createBucket"
           /\ pc'[c] # pc[c]
           /\ bucketName[c] \notin DOMAIN buckets')
           => (pc'[c] = "statusError" /\ UNCHANGED <<secrets, configMaps>>)
       /\ (EnsureFailed(c) /\ pc'[c] # pc[c])
           => /\ pc'[c] = "idle"
              /\ result'[c] = "err"
              /\ UNCHANGED <<secrets, configMaps>>
              /\ c \in DOMAIN store' => store'[c].status.phase = "Error"]_vars

\* C24, amended: when ensureBucket fails in a steady-state pass, the pass
\* issues one status write that sets phase Error and nothing else, ignores
\* the outcome of that write, and returns the error: afterwards the stored
\* claim is as before or differs in phase Error alone. Neither artifact is
\* created or updated in that pass.
C24_EnsureFailureTriesError ==
  [][\A c \in Claims :
       /\ (/\ pc[c] = "createBucket"
           /\ pc'[c] # pc[c]
           /\ bucketName[c] \notin DOMAIN buckets')
           => /\ pc'[c] = "statusError"
              /\ claim'[c] = [claim[c] EXCEPT !.status.phase = "Error"]
              /\ UNCHANGED <<store, secrets, configMaps>>
       /\ (EnsureFailed(c) /\ pc'[c] # pc[c])
           => /\ pc'[c] = "idle"
              /\ result'[c] = "err"
              /\ UNCHANGED <<secrets, configMaps>>
              /\ \/ store' = store
                 \/ store' = [store EXCEPT ![c].status.phase = "Error"]]_vars

\* a first pass whose create call failed has returned the error: phase Error
\* is persisted, the bucket is missing and no artifact exists
C24_Witness ==
  \E c \in DOMAIN store :
    /\ pc[c] = "idle"
    /\ result[c] = "err"
    /\ path[c] = "new"
    /\ attempted[c]
    /\ store[c].status.phase = "Error"
    /\ store[c].annotations[annotationBucketName] = bucketName[c]
    /\ bucketName[c] \notin DOMAIN buckets
    /\ secrets = << >>
    /\ configMaps = << >>

\* the steps of a steady-state pass that come before its final status write
BeforeStatusBound == DOMAIN StepRank \ {"statusBound"}

\* C25: when the upsert of the Secret or of the ConfigMap fails, the pass
\* returns the error at once and leaves the persisted phase as it was before
\* the pass, neither Bound nor Error, and issues no status write: a pass
\* leaves an upsert step only for the next step or for its return with the
\* error, that return changes nothing in the claim store, and while a pass is
\* at any step before its final status write the stored status stays as it is.
C25_UpsertFailureKeepsPhase ==
  [][\A c \in Claims :
       /\ (pc[c] = "upsertSecret" /\ pc'[c] # pc[c])
           => \/ pc'[c] = "writeSecret" /\ store' = store
              \/ pc'[c] = "idle" /\ result'[c] = "err" /\ store' = store
       /\ (pc[c] = "writeSecret" /\ pc'[c] # pc[c])
           => \/ pc'[c] = "upsertConfigMap"
              \/ pc'[c] = "idle" /\ result'[c] = "err" /\ store' = store
       /\ (pc[c] = "upsertConfigMap" /\ pc'[c] # pc[c])
           => \/ pc'[c] = "writeConfigMap" /\ store' = store
              \/ pc'[c] = "idle" /\ result'[c] = "err" /\ store' = store
       /\ (pc[c] = "writeConfigMap" /\ pc'[c] # pc[c])
           => \/ pc'[c] = "statusBound"
              \/ pc'[c] = "idle" /\ result'[c] = "err" /\ store' = store
       /\ (pc[c] \in BeforeStatusBound /\ c \in DOMAIN store /\ c \in DOMAIN store')
           => store'[c].status = store[c].status]_vars

\* the first pass of a claim has returned the error of the ConfigMap upsert
\* with no failure injected: it created the Secret, a client created the
\* ConfigMap between upsertConfigMap's c.Get and its c.Create, which the API
\* server refused, and the phase is still unset
C25_Witness ==
  \E c \in DOMAIN store :
    /\ pc[c] = "idle"
    /\ result[c] = "err"
    /\ path[c] = "new"
    /\ faults = 0
    /\ SecretName(store[c]) \in DOMAIN secrets
    /\ secrets[SecretName(store[c])].owner = c
    /\ ConfigMapName(store[c]) \in DOMAIN configMaps
    /\ configMaps[ConfigMapName(store[c])].owner = ""
    /\ store[c].status = ZeroStatus

\* the status fields a successful pass records
Recorded(st) ==
  [bucketName |-> st.bucketName, secretRef |-> st.secretRef,
   configMapRef |-> st.configMapRef]

\* C26: a pass that ends in failure overwrites no persisted status field of
\* an earlier success: status.bucketName, status.secretRef and
\* status.configMapRef of a stored claim change in no step but the final
\* status write of a pass that returns nil, so they are after a failed pass
\* what they were before it, wherever the pass failed.
C26_FailedPassKeepsStatusFields ==
  [][\A c \in DOMAIN store \cap DOMAIN store' :
       Recorded(store'[c].status) # Recorded(store[c].status)
       => (pc[c] = "statusBound" /\ pc'[c] = "idle" /\ result'[c] = "ok")]_vars

\* a pass over a claim that was Bound has failed and left phase Error, and
\* the bucket name and the artifact references are still recorded
C26_Witness ==
  \E c \in DOMAIN store :
    /\ pc[c] = "idle"
    /\ result[c] = "err"
    /\ store[c].status.phase = "Error"
    /\ store[c].status.bucketName # ""
    /\ store[c].status.secretRef = SecretName(store[c])
    /\ store[c].status.configMapRef = ConfigMapName(store[c])

\* the steps of a steady-state pass that write the claim and look at the
\* outcome: the finalizer write, the annotation write, the final status write
CheckedWrites == {"addFinalizer", "annotate", "statusBound"}

\* C27: a store-write conflict on the finalizer write, the annotation write or
\* the final status write is surfaced as the error the pass returns and is
\* not a terminal error: the pass whose write meets a stale version returns
\* the error at once, having changed neither the stored claim (no phase
\* Error) nor the backend nor the artifacts, and takes no later step; the
\* pass delivered next reads the claim anew and can reach Bound.
C27_ConflictReturnsError ==
  [][\A c \in Claims :
       (pc[c] \in CheckedWrites /\ stale[c] /\ pc'[c] # pc[c])
       => /\ pc'[c] = "idle"
          /\ result'[c] = "err"
          /\ ~stale'[c]
          /\ UNCHANGED <<store, buckets, secrets, configMaps>>]_vars

\* with no failure injected, the final status write of one pass met a
\* conflict after its bucket was created, and a later pass, which generated
\* another name, has made the claim Bound
C27_Witness ==
  \E c \in DOMAIN store :
    /\ faults = 0
    /\ edits > 0
    /\ store[c].spec.bucketName = ""
    /\ pc[c] = "idle"
    /\ result[c] = "ok"
    /\ store[c].status.phase = "Bound"
    /\ \E b \in DOMAIN buckets : b # store[c].status.bucketName

\* the bucket name a claim records: the annotation, or status.bucketName when
\* there is no annotation
RecordedBucket(cl) ==
  IF cl.annotations[annotationBucketName] # ""
  THEN cl.annotations[annotationBucketName]
  ELSE cl.status.bucketName

\* C28: on the deletion path with policy Delete the bucket targeted is the
\* bucket-name annotation when it is non-empty, otherwise status.bucketName:
\* a pass that loads such a claim goes to the credential fetch with that
\* target, and no step of the pass touches any other bucket; when both are
\* empty the pass goes straight to the finalizer removal, with no credential
\* fetch and no backend call.
C28_DeletionTarget ==
  [][\A c \in Claims :
       /\ (pc[c] = "idle" /\ pc'[c] # "idle" /\ claim'[c].deletionTimestamp
             /\ claim'[c].spec.retainPolicy = RetainPolicyDelete)
           => IF RecordedBucket(claim'[c]) # ""
              THEN /\ pc'[c] = "delGetCredentials"
                   /\ bucketName'[c] = RecordedBucket(claim'[c])
              ELSE /\ pc'[c] = "removeFinalizer"
                   /\ s3Client'[c] = ZeroClient
       /\ (pc[c] \in DeleteSteps \cup {"delGetCredentials"})
           => /\ bucketName[c] = RecordedBucket(claim[c])
              /\ bucketName[c] # ""
              /\ \A b \in DOMAIN buckets \ {bucketName[c]} :
                    b \in DOMAIN buckets' /\ buckets'[b] = buckets[b]
       /\ (pc[c] = "removeFinalizer" /\ RecordedBucket(claim[c]) = "")
           => buckets' = buckets]_vars

\* a Delete-policy claim without the annotation has had the bucket of its
\* status deleted, and the other bucket is still there
C28_Witness ==
  \E c \in Claims :
    /\ pc[c] = "removeFinalizer"
    /\ claim[c].annotations[annotationBucketName] = ""
    /\ claim[c].status.bucketName = "n2"
    /\ delResult[c] = "ok"
    /\ DOMAIN buckets = {"n1"}

\* the positions of the steady-state path
SteadySteps == DOMAIN StepRank \cup {"statusError"}

\* C29: the steady-state path runs only when the deletion flag is clear: a
\* pass that has loaded a claim with the deletion flag set stands at no step
\* of the steady-state path and goes to none, so it attaches no finalizer and
\* calls no ensureBucket; it leaves the stored claim's annotations and status
\* as they are, adds no finalizer, creates no bucket, and creates or updates
\* no artifact.
C29_NoSteadyStepsWhenDeleting ==
  [][\A c \in Claims :
       /\ (pc[c] = "idle" /\ pc'[c] # "idle" /\ claim'[c].deletionTimestamp)
           => (pc'[c] \notin SteadySteps /\ store' = store)
       /\ (pc[c] # "idle" /\ claim[c].deletionTimestamp)
           => /\ pc[c] \notin SteadySteps
              /\ pc'[c] \notin SteadySteps
              /\ UNCHANGED <<secrets, configMaps>>
              /\ \A b \in DOMAIN buckets' \ DOMAIN buckets : buckets'[b].owner # "self"
              /\ (c \in DOMAIN store /\ c \in DOMAIN store')
                  => /\ store'[c].finalizers \subseteq store[c].finalizers
                     /\ store'[c].annotations = store[c].annotations
                     /\ store'[c].status = store[c].status]_vars

\* the deletion pass of a Bound claim is about to remove the finalizer; the
\* stored claim is still Bound and its artifacts are as the last steady-state
\* pass left them
C29_Witness ==
  \E c \in DOMAIN store :
    /\ pc[c] = "removeFinalizer"
    /\ claim[c].deletionTimestamp
    /\ store[c].status.phase = "Bound"
    /\ store[c].annotations[annotationBucketName] = store[c].status.bucketName
    /\ SecretName(store[c]) \in DOMAIN secrets
    /\ ConfigMapName(store[c]) \in DOMAIN configMaps

\* the existence probe of pass c succeeds on this round trip: the bucket is
\* there, it is the account's own, and the call did not fail on the way
ProbeSucceeds(c) ==
  /\ bucketName[c] \in DOMAIN buckets
  /\ buckets[bucketName[c]].owner = "self"
  /\ faults' = faults

\* C30: ensureBucket issues no create call when the existence probe succeeds:
\* the pass goes from the probe straight on to the artifacts, and it goes to
\* the create call exactly when the probe failed. A failing probe by itself
\* never makes ensureBucket fail and changes no bucket. After the create call
\* ensureBucket returns an error exactly when the call failed with an error
\* outside the already-owned / already-exists class (here: the call failed on
\* the way); a create call answered already-owned or already-exists, and one
\* that made the bucket, let the pass go on to the artifacts.
C30_EnsureBucketErrors ==
  [][\A c \in Claims :
       /\ (pc[c] = "headBucket" /\ pc'[c] # pc[c])
           => /\ UNCHANGED buckets
              /\ pc'[c] \in {"upsertSecret", "createBucket"}
              /\ pc'[c] = "upsertSecret" <=> ProbeSucceeds(c)
       /\ (pc[c] = "createBucket" /\ pc'[c] # pc[c])
           => /\ pc'[c] \in {"upsertSecret", "statusError"}
              /\ pc'[c] = "statusError" <=> faults' # faults
              /\ pc'[c] = "statusError" => UNCHANGED buckets
              /\ pc'[c] = "upsertSecret" => bucketName[c] \in DOMAIN buckets'
              /\ bucketName[c] \in DOMAIN buckets => UNCHANGED buckets]_vars

\* a first pass has got through ensureBucket although its probe failed: the
\* probe did not report the bucket, the name is the bucket of another account,
\* and the create call's already-exists answer was forgiven
C30_Witness ==
  \E c \in Claims :
    /\ pc[c] = "upsertSecret"
    /\ path[c] = "new"
    /\ attempted[c]
    /\ faults = 0
    /\ bucketName[c] \in DOMAIN buckets
    /\ buckets[bucketName[c]].owner # "self"

\* the list call of pass c fails on this round trip: the bucket is not there,
\* it is another account's, or the call failed on the way
ListFails(c) ==
  \/ bucketName[c] \notin DOMAIN buckets
  \/ buckets[bucketName[c]].owner # "self"
  \/ disturbed'[c]

\* the object delete of pass c fails on this round trip: the bucket is not
\* there, it is another account's, or the call failed on the way, which shows
\* in the pass becoming disturbed or, for a pass that an upload had disturbed
\* before, in the error deleteBucket returns
DeleteObjectFails(c) ==
  \/ bucketName[c] \notin DOMAIN buckets
  \/ buckets[bucketName[c]].owner # "self"
  \/ (disturbed'[c] /\ ~disturbed[c])
  \/ (disturbed[c] /\ delResult'[c] = "err")

\* deleteBucket of pass c has returned an error before its bucket-delete call
Aborted(c) == pc[c] = "removeFinalizer" /\ delResult[c] = "err"

\* C31: in deleteBucket a failure of the list call or of any single object
\* delete aborts the sequence: the failing step changes nothing in the backend
\* and hands the error to handleDeletion, and once deleteBucket has returned
\* an error the pass issues no further object delete and no bucket delete and
\* changes no bucket, so the objects already deleted stay deleted and the
\* others stay; an object delete that succeeds removes its key alone and goes
\* on with the loop; and a list call that succeeds, also the one of a later
\* pass, carries the first keys of the objects that remain and nothing else.
C31_FailureAbortsDeleteBucket ==
  [][\A c \in Claims :
       /\ (pc[c] = "listObjects" /\ pc'[c] # pc[c])
           => IF ListFails(c)
              THEN Aborted(c)' /\ UNCHANGED buckets
              ELSE /\ pc'[c] \in {"deleteObject", "deleteBucket"}
                   /\ listResp'[c] = ListContents(buckets, bucketName[c])
                   /\ \A i \in 1..Len(listResp'[c]) :
                        listResp'[c][i] \in buckets[bucketName[c]].objects
                   /\ UNCHANGED buckets
       /\ (pc[c] = "deleteObject" /\ <<pc[c], listResp[c]>>' # <<pc[c], listResp[c]>>)
           => IF DeleteObjectFails(c)
              THEN Aborted(c)' /\ UNCHANGED buckets
              ELSE /\ pc'[c] \in {"deleteObject", "deleteBucket"}
                   /\ buckets' = [buckets EXCEPT ![bucketName[c]].objects =
                                                   @ \ {Head(listResp[c])}]
       /\ (Aborted(c) /\ pc'[c] # pc[c])
           => (pc'[c] = "idle" /\ UNCHANGED buckets)]_vars

\* deleteBucket has returned an error after it deleted the first object of a
\* bucket that held more: the bucket is there with every other object
C31_Witness ==
  \E c \in Claims :
    /\ Aborted(c)
    /\ disturbed[c]
    /\ bucketName[c] \in DOMAIN buckets
    /\ buckets[bucketName[c]].objects = ObjectKeys \ {1}

\* the last pass for claim c was a steady-state pass that returned nil
Settled(c) == pc[c] = "idle" /\ result[c] = "ok" /\ path[c] \in {"new", "steady"}

\* what a steady-state pass that resolved name bn under client c3 leaves of
\* claim cl when no other pass acts: the stored claim's finalizers,
\* annotations and status, the two artifacts, and the bucket in the account
ProvisionedAlone(cl, c3, bn) ==
  /\ cl.finalizers = {finalizerName}
  /\ cl.annotations = Annotated(cl, bn).annotations
  /\ cl.status = BoundStatus(cl, bn)
  /\ SecretName(cl) \in DOMAIN secrets
  /\ secrets[SecretName(cl)] =
       upsertSecret(<< >>, DesiredSecret(cl, c3, bn))[SecretName(cl)]
  /\ ConfigMapName(cl) \in DOMAIN configMaps
  /\ configMaps[ConfigMapName(cl)] =
       upsertConfigMap(<< >>, DesiredConfigMap(cl, c3, bn))[ConfigMapName(cl)]
  /\ bn \in DOMAIN buckets
  /\ buckets[bn].owner = "self"

\* the S3 client a pass builds from the credential secret
CurrentClient ==
  LET d == credSecrets[credSecretName]
  IN  newS3Client(d.endpoint, d.region, d.accessKey, d.secretKey, TRUE, TRUE)

\* the Secret and the ConfigMap of claim c, absent ones as << >>
ArtifactsOf(c) ==
  LET cl == NewClaim(c, ZeroSpec) IN
  << IF SecretName(cl) \in DOMAIN secrets THEN << secrets[SecretName(cl)] >> ELSE << >>,
     IF ConfigMapName(cl) \in DOMAIN configMaps
     THEN << configMaps[ConfigMapName(cl)] >> ELSE << >> >>

\* C32: reconcile passes for two distinct claims interleave without
\* interfering. A step in which the pass for claim B does not move (a step of
\* the pass for A, or the user's) leaves B's finalizers, annotations and status
\* and B's two artifacts as they are, and removes B from the store only when
\* the user deletes a B that has no finalizer. And when the two claims have
\* resolved different bucket names and the last pass of each was a
\* steady-state pass that returned nil, each claim, its artifacts and its
\* bucket are exactly what a pass for that claim alone leaves, whatever the
\* interleaving was; with no failure on the way the backend holds these two
\* buckets and no other.
C32_PassesDoNotInterfere ==
  /\ [][\A b \in Claims :
          (pc'[b] = pc[b] /\ b \in DOMAIN store)
          => /\ ArtifactsOf(b)' = ArtifactsOf(b)
             /\ IF b \in DOMAIN store'
                THEN /\ store'[b].finalizers = store[b].finalizers
                     /\ store'[b].annotations = store[b].annotations
                     /\ store'[b].status = store[b].status
                ELSE store[b].finalizers = {}]_vars
  /\ []((/\ \A c \in Claims : Settled(c)
          /\ bucketName["a"] # bucketName["b"])
         => /\ \A c \in Claims :
                 /\ c \in DOMAIN store
                 /\ ProvisionedAlone(store[c], CurrentClient, bucketName[c])
            /\ faults = 0 => DOMAIN buckets = {bucketName[c] : c \in Claims})

\* the passes of the two claims are under way at once with different bucket
\* names: the one for b has written both of b's artifacts, the one for a has
\* its bucket and is about to write a's Secret
C32_Witness ==
  /\ pc["a"] = "upsertSecret"
  /\ pc["b"] = "statusBound"
  /\ bucketName["a"] # bucketName["b"]
  /\ bucketName["a"] \in DOMAIN buckets
  /\ bucketName["b"] \in DOMAIN buckets
  /\ SecretName(claim["b"]) \in DOMAIN secrets
  /\ SecretName(claim["a"]) \notin DOMAIN secrets

\* the s3-credentials secret is there
CredentialsPresent == credSecretName \in DOMAIN credSecrets

\* the stored phase of claim c, "" when the claim is not stored
StoredPhase(c) == IF c \in DOMAIN store THEN store[c].status.phase ELSE ""

\* C33: provisioning converges. For a claim whose deletion is never asked for,
\* whatever passes failed before and wherever they failed: if from some point
\* on the credential secret stays present (injected failures of backend calls
\* and store writes are finitely many), then, failed passes being delivered
\* again, the claim's stored phase is eventually Bound.
C33_ProvisioningConverges ==
  <>[]CredentialsPresent => <>(StoredPhase("a") = "Bound")

\* the claim is Bound after a pass that failed when it had committed part of
\* its steps: that pass left a bucket under a generated name, a later pass
\* generated another name, and the credential secret was replaced on the way
C33_Witness ==
  /\ StoredPhase("a") = "Bound"
  /\ Cardinality(DOMAIN buckets) = 2
  /\ faults = MaxFaults
  /\ CredentialsPresent
  /\ credSecrets[credSecretName] = CredData("2")
  /\ pc["a"] = "idle"
  /\ result["a"] = "ok"

\* the phases the status documents
NamedPhases == {"Pending", "Bound", "Error"}

\* C34: in every reachable state a stored claim that carries the finalizer has
\* a persisted phase that is one of Pending, Bound and Error; in particular a
\* claim that has the finalizer and is not Bound has phase Pending or Error.
C34_FinalizerMeansNamedPhase ==
  \A c \in DOMAIN store :
    HasFinalizer(store, c) => store[c].status.phase \in NamedPhases

\* the stored claim b is Bound and its deletion has not been asked for
BoundAndLive(b) ==
  /\ b \in DOMAIN store
  /\ store[b].status.phase = "Bound"
  /\ ~store[b].deletionTimestamp

\* C35: removing a claim with policy Delete never destroys a bucket another
\* live claim depends on: no step of the deletion pass of a claim A deletes a
\* bucket whose name is the status.bucketName of a different claim B that is
\* Bound and not being deleted.
C35_DeletionSparesBucketsOfLiveClaims ==
  [][\A a \in Claims, b \in Claims :
       (/\ a # b
        /\ pc[a] \in DeleteSteps
        /\ BoundAndLive(b)
        /\ store[b].status.bucketName \in DOMAIN buckets)
       => store[b].status.bucketName \in DOMAIN buckets']_vars

\* the buckets the engine's create calls have made and that are still there
EngineBuckets == { b \in DOMAIN buckets : buckets[b].owner = "self" }

\* C36: no bucket is leaked by retries. Over the lifetime of a claim whose
\* spec is not edited the engine's create calls make buckets of at most one
\* name, whatever passes fail and wherever; hence, once the deleteBucket of a
\* Delete-policy deletion has removed the recorded bucket, no bucket that the
\* engine created for the claim is left.
C36_NoBucketLeakedByRetries ==
  /\ Cardinality(EngineBuckets) <= 1
  /\ \A c \in Claims :
       (pc[c] = "removeFinalizer" /\ delResult[c] = "ok") => EngineBuckets = {}

\* C37: the retention decision of the deletion path depends only on
\* spec.retainPolicy as the deletion pass read it; the retain-policy
\* annotation written during reconcile is never consulted. A deletion pass that
\* read policy Delete and finds a bucket name recorded goes on to delete that
\* bucket, whatever the annotation says, and its bucket delete, when nothing
\* fails and the bucket is empty, removes the bucket; a deletion pass that read
\* any other policy goes straight to the finalizer removal and changes no
\* bucket, whatever the annotation says. So a claim provisioned with Delete
\* and later edited to Retain keeps its bucket, and one edited from Retain to
\* Delete loses it.
C37_RetentionBySpecAlone ==
  [][\A c \in Claims :
       /\ (pc[c] = "idle" /\ pc'[c] # "idle" /\ claim'[c].deletionTimestamp)
           => IF claim'[c].spec.retainPolicy = RetainPolicyDelete
                 /\ RecordedBucket(claim'[c]) # ""
              THEN /\ pc'[c] = "delGetCredentials"
                   /\ bucketName'[c] = RecordedBucket(claim'[c])
              ELSE pc'[c] = "removeFinalizer"
       /\ (pc[c] # "idle" /\ claim[c].deletionTimestamp
              /\ claim[c].spec.retainPolicy # RetainPolicyDelete
              /\ <<pc[c], listResp[c]>>' # <<pc[c], listResp[c]>>)
           => (pc[c] = "removeFinalizer" /\ UNCHANGED buckets)
       /\ (pc[c] = "deleteBucket" /\ pc'[c] # pc[c] /\ ~disturbed'[c]
              /\ bucketName[c] \in EngineBuckets
              /\ buckets[bucketName[c]].objects = {})
           => (claim[c].spec.retainPolicy = RetainPolicyDelete
               /\ bucketName[c] \notin DOMAIN buckets')]_vars

\* a claim provisioned with policy Delete was edited to Retain and then
\* deleted: its deletion pass is about to remove the finalizer, the annotation
\* still says Delete, and the bucket is there
C37_Witness ==
  \E c \in Claims :
    /\ pc[c] = "removeFinalizer"
    /\ claim[c].deletionTimestamp
    /\ claim[c].spec.retainPolicy = RetainPolicyRetain
    /\ claim[c].annotations[annotationRetainPolicy] = RetainPolicyDelete
    /\ claim[c].status.phase = "Bound"
    /\ delResult[c] = "none"
    /\ claim[c].status.bucketName \in EngineBuckets

\* what r.Get of claim c finds is nothing, or a claim that is being deleted
\* and does not carry the engine's finalizer
NothingToDo(c) ==
  \/ c \notin DOMAIN store
  \/ (store[c].deletionTimestamp /\ finalizerName \notin store[c].finalizers)

\* C38: a pass that loads a claim with the deletion flag set and without the
\* finalizer, or that finds no claim under the requested name, is a no-op: it
\* returns success, writes nothing to the claim store or the artifacts, and
\* makes no credential fetch and no backend call (the pass ends where it
\* began, without a client, and no bucket changes).
C38_NothingToDoIsNoOp ==
  [][\A c \in Claims :
       (/\ pc[c] = "idle"
        /\ NothingToDo(c)
        /\ <<path[c], result[c]>>' # <<path[c], result[c]>>
        /\ faults' = faults)
       => /\ pc'[c] = "idle"
          /\ result'[c] = "ok"
          /\ path'[c] = IF c \in DOMAIN store THEN "gone" ELSE "notfound"
          /\ s3Client'[c] = ZeroClient
          /\ UNCHANGED <<store, secrets, configMaps, credSecrets, buckets>>]_vars

\* a pass has returned nil for a Delete-policy claim that is being deleted
\* and is held by another controller's finalizer alone: the claim is stored as
\* it was and the bucket it names is there
C38_Witness ==
  \E c \in DOMAIN store :
    /\ path[c] = "gone"
    /\ pc[c] = "idle"
    /\ result[c] = "ok"
    /\ store[c].deletionTimestamp
    /\ store[c].finalizers = {ForeignFinalizer}
    /\ store[c].spec.retainPolicy = RetainPolicyDelete
    /\ RecordedBucket(store[c]) \in DOMAIN buckets

====
